---- MODULE Spec2Model ----
(***************************************************************************)
(* Tenant lifecycle orchestrator of the provisioning control plane         *)
(* (services/control-plane): request handlers create_store, delete_store,  *)
(* suspend_tenant, resume_tenant, the shared PostgreSQL cluster, the       *)
(* tenant working directories, the docker compose projects, the tenant     *)
(* registry table and the background admin seeder thread.                  *)
(*                                                                         *)
(* Strings are sequences of string atoms (single characters for tenant     *)
(* names, literal chunks such as "db_" for the f-string parts), so that    *)
(* strip / lower / replace / regex matching / concatenation are computed   *)
(* and not assumed.                                                        *)
(***************************************************************************)
EXTENDS Integers, Sequences, FiniteSets, TLC

(***************************************************************************)
(* Bounds of the model                                                     *)
(***************************************************************************)
\* number of create requests received over a behaviour
MaxCreates == 2
\* number of injected failures of external commands / SQL statements
MaxFaults == 1

(***************************************************************************)
(* str methods                                                             *)
(***************************************************************************)
UpperCase == <<"A","B","C","D","E","F","G","H","I","J","K","L","M",
               "N","O","P","Q","R","S","T","U","V","W","X","Y","Z">>
LowerCase == <<"a","b","c","d","e","f","g","h","i","j","k","l","m",
               "n","o","p","q","r","s","t","u","v","w","x","y","z">>
Digits == {"0","1","2","3","4","5","6","7","8","9"}
LowerAlnum == {LowerCase[i] : i \in 1..26} \cup Digits
Whitespace == {" ", "\t", "\n", "\r"}

char_lower(c) ==
    IF \E i \in 1..26 : UpperCase[i] = c
    THEN LowerCase[CHOOSE i \in 1..26 : UpperCase[i] = c]
    ELSE c

\* str.lower()
str_lower(s) == [i \in 1..Len(s) |-> char_lower(s[i])]

RECURSIVE str_lstrip(_)
str_lstrip(s) ==
    IF Len(s) > 0 /\ s[1] \in Whitespace THEN str_lstrip(Tail(s)) ELSE s

RECURSIVE str_rstrip(_)
str_rstrip(s) ==
    IF Len(s) > 0 /\ s[Len(s)] \in Whitespace
    THEN str_rstrip(SubSeq(s, 1, Len(s) - 1))
    ELSE s

\* str.strip()
str_strip(s) == str_rstrip(str_lstrip(s))

\* str.replace(old, new) for one-character old / new
str_replace(s, old, new) == [i \in 1..Len(s) |-> IF s[i] = old THEN new ELSE s[i]]

(***************************************************************************)
(* Schemas: TenantCreate validators                                        *)
(***************************************************************************)
\* the pattern with the repetition written {0,28}
RE_body_short(v) ==
    /\ Len(v) >= 2
    /\ Len(v) <= 30
    /\ v[1] \in LowerAlnum
    /\ v[Len(v)] \in LowerAlnum
    /\ \A i \in 2..(Len(v) - 1) : v[i] \in LowerAlnum \cup {"-"}

\* ^[a-z0-9][a-z0-9\-]{1,28}[a-z0-9] anchored at the start, without the final $
RE_body(v) ==
    /\ Len(v) >= 3
    /\ Len(v) <= 30
    /\ v[1] \in LowerAlnum
    /\ v[Len(v)] \in LowerAlnum
    /\ \A i \in 2..(Len(v) - 1) : v[i] \in LowerAlnum \cup {"-"}

\* TENANT_NAME_RE.match(v): Python's $ also matches before one trailing newline
TENANT_NAME_RE(v) ==
    \/ RE_body(v)
    \/ /\ Len(v) >= 1
       /\ v[Len(v)] = "\n"
       /\ RE_body(SubSeq(v, 1, Len(v) - 1))

\* TenantCreate.validate_tenant_name: the normalised value, or a ValueError
validate_tenant_name(raw) ==
    LET v == str_lower(str_strip(raw))
    IN  IF TENANT_NAME_RE(v) THEN [ok |-> TRUE, v |-> v] ELSE [ok |-> FALSE, v |-> v]

AllowedThemes == {"fashion", "electronics", "minimal", "default"}
validate_theme(v) == v \in AllowedThemes

AllowedSiteTypes == {"ecommerce", "blog", "cms", "static", "booking"}
validate_site_type(v) == v \in AllowedSiteTypes

(***************************************************************************)
(* Settings                                                                *)
(***************************************************************************)
settings_DOMAIN == <<"127.0.0.1.nip.io">>
settings_DB_HOST == <<"shared-postgres">>
settings_DB_PORT == <<"5432">>

\* site types whose blueprint directory <control-plane>/blueprints/<site_type>
\* is present on the control-plane host (the blueprint tree is operator input)
Blueprints == {"ecommerce", "blog"}

(***************************************************************************)
(* State                                                                   *)
(***************************************************************************)
VARIABLES
    pg_database,   \* shared cluster: database name -> [owner, acl]
    pg_roles,      \* shared cluster: role name -> password
    tenants,       \* registry table: name -> row
    tenant_dirs,   \* TENANTS_DIR: directory name -> materialised working tree
    containers,    \* docker: compose project (tenant name) -> container state
    reqs,          \* request slot -> the handler invocation running in it
    seeders,       \* seeder slot -> background thread started by create_store
    entropy,       \* number of values drawn from the secrets generator so far
    ncreate,       \* number of create requests admitted so far
    faults,        \* number of injected external failures so far
    last_creds,    \* history: tenant name -> credentials provision_tenant_db last returned
    life,          \* history: tenant name -> how far a create-then-delete got
    scope          \* the requests and failures a specification admits (never changes)

vars == <<pg_database, pg_roles, tenants, tenant_dirs, containers, reqs, seeders,
          entropy, ncreate, faults, last_creds, life, scope>>

infra == <<pg_database, pg_roles, tenants, tenant_dirs, containers>>

\* the request slots: requests that can be in flight at once
SlotIds == {1}
Slots == DOMAIN reqs

EmptyMap == [x \in {} |-> 0]
Put(f, k, v) == [x \in (DOMAIN f) \cup {k} |-> IF x = k THEN v ELSE f[x]]
Del(f, k) == [x \in (DOMAIN f) \ {k} |-> f[x]]

(***************************************************************************)
(* secrets: every draw is a value no earlier draw produced. A value is     *)
(* identified by the index of its draw; its length is the requested one.   *)
(***************************************************************************)
\* a generator that is seeded the same way on every call
generate_secure_password_seeded(e) == [kind |-> "alnum", length |-> 18, draw |-> 1]

\* db.generate_secure_password(length=18), drawn as draw number e
generate_secure_password(e) == [kind |-> "alnum", length |-> 18, draw |-> e]

\* create_store: "".join(secrets.choice(alphabet) for _ in range(16))
generate_admin_password(e) == [kind |-> "alnum", length |-> 16, draw |-> e]

\* secrets.token_hex(nbytes)
token_hex(nbytes, e) == [kind |-> "hex", length |-> 2 * nbytes, draw |-> e]

\* secrets.token_urlsafe(nbytes): ceil(4 * nbytes / 3) characters
token_urlsafe(nbytes, e) == [kind |-> "urlsafe", length |-> (4 * nbytes + 2) \div 3, draw |-> e]

NoSecret == [kind |-> "none", length |-> 0, draw |-> 0]

(***************************************************************************)
(* Canonical identifiers (db.py)                                           *)
(***************************************************************************)
\* the name lower-cased without the hyphen replacement
safe_name_hyphen(tenant_name) == str_lower(tenant_name)

\* safe = tenant_name.replace("-", "_").lower()
safe_name(tenant_name) == str_lower(str_replace(tenant_name, "-", "_"))
\* db_name = f"db_{safe}"
db_name_of(tenant_name) == <<"db_">> \o safe_name(tenant_name)
\* role_name = f"user_{safe}"
role_name_of(tenant_name) == <<"user_">> \o safe_name(tenant_name)

(***************************************************************************)
(* The shared PostgreSQL cluster: what each statement does                 *)
(***************************************************************************)
\* SELECT 1 FROM pg_database WHERE datname = $1
sql_db_exists(db) == db \in DOMAIN pg_database

\* CREATE ROLE r WITH LOGIN PASSWORD 'p' : error when the role exists
sql_create_role_ok(role) == role \notin DOMAIN pg_roles
\* CREATE DATABASE d OWNER r : error when d exists or r does not
sql_create_database_ok(db, role) == db \notin DOMAIN pg_database /\ role \in DOMAIN pg_roles
\* GRANT CONNECT ON DATABASE d TO r
sql_grant_ok(db, role) == db \in DOMAIN pg_database /\ role \in DOMAIN pg_roles
\* ALTER ROLE r WITH PASSWORD 'p' : error when the role does not exist
sql_alter_role_ok(role) == role \in DOMAIN pg_roles
\* a re-provisioning that leaves the stored password as it is
sql_alter_role_skipped(role, password) == pg_roles

\* the roles after ALTER ROLE r WITH PASSWORD 'p'
sql_alter_role(role, password) == [pg_roles EXCEPT ![role] = password]
\* DROP DATABASE d : error when d does not exist
sql_drop_database_ok(db) == db \in DOMAIN pg_database
\* DROP ROLE IF EXISTS r : error when r still owns a database
sql_drop_role_ok(role) == \A d \in DOMAIN pg_database : pg_database[d].owner # role

(***************************************************************************)
(* Requests                                                                *)
(***************************************************************************)
\* tenant names sent to POST /create-store
CreateNames ==
    { <<"a","-","b">>,              \* valid, with a hyphen
      <<"s","h","o","p">>,          \* valid
      <<"A","-","B">>,              \* upper case
      <<" ","a","-","b","\n">>,     \* surrounding whitespace
      <<"a","b">>,                  \* too short
      <<"-","a","b">>,              \* leading hyphen
      <<"a","b","-">>,              \* trailing hyphen
      <<"a","_","b">>,              \* character outside [a-z0-9-]
      [i \in 1..31 |-> "a"] }       \* too long
\* tenant names sent to /delete-store and /tenants/{tenant_name}/...
PathNames ==
    { <<"a","-","b">>, <<"s","h","o","p">>, <<"A","-","B">>, <<"a","_","b">> }
\* POST /create-store bodies: every name as an e-commerce site; a second
\* tenant as a blog and as a site type that has no blueprint; a theme and a
\* site type outside the allowed sets
CreateBodies ==
    { [raw |-> n, theme |-> "fashion", site_type |-> "ecommerce"] :
          n \in CreateNames \ { <<"s","h","o","p">> } }
    \cup { [raw |-> <<"s","h","o","p">>, theme |-> "minimal", site_type |-> "blog"],
           [raw |-> <<"s","h","o","p">>, theme |-> "fashion", site_type |-> "cms"],
           [raw |-> <<"s","h","o","p">>, theme |-> "neon", site_type |-> "ecommerce"],
           [raw |-> <<"s","h","o","p">>, theme |-> "fashion", site_type |-> "wiki"] }

\* what the tenant_name validator makes of each name sent
Validated == [raw \in CreateNames |-> validate_tenant_name(raw)]

\* create_store starting the containers before the database is provisioned
create_store_body_compute_first ==
    <<"start_tenant", "provision_tenant_db", "register_tenant", "seed_thread", "return">>
\* delete_store dropping the database before the containers are taken down
delete_store_body_db_first ==
    <<"delete_tenant_db", "delete_tenant", "deregister_tenant", "return">>

\* the calls each handler makes, in program order
create_store_body ==
    <<"provision_tenant_db", "start_tenant", "register_tenant", "seed_thread", "return">>
delete_store_body ==
    <<"delete_tenant", "delete_tenant_db", "deregister_tenant", "return">>

\* create_store of the first revision of the API (src/api/main.py): no
\* registry and no seeder
api_create_store_body ==
    <<"provision_tenant_db", "start_tenant_containers", "return">>

\* seed_admin: one synchronous call, then the response
seed_admin_body == <<"seed_admin_user", "return">>

Body(op) ==
    CASE op = "create" -> create_store_body
      [] op = "api_create" -> api_create_store_body
      [] op = "seed_admin" -> seed_admin_body
      [] OTHER -> delete_store_body

\* first step of a call
EntrySub(call) ==
    IF call \in {"provision_tenant_db", "delete_tenant_db"} THEN "fetchval" ELSE "call"

NoCreds == [DB_HOST |-> <<>>, DB_PORT |-> <<>>, DB_NAME |-> <<>>, DB_USER |-> <<>>,
            DB_PASSWORD |-> NoSecret]
NoResp == [status_code |-> 0, status |-> "", message |-> <<>>,
           storefront |-> <<>>, admin |-> <<>>, email |-> <<>>, password |-> NoSecret]

\* an Optional[str] field of a request body: absent (None) or a string
NoneStr == [given |-> FALSE, v |-> <<>>]
NonePassword == [given |-> FALSE, v |-> NoSecret]

Event(e, id) == [e |-> e, id |-> id]

NewReq(op, raw, name, theme, st) ==
    [op |-> op, raw |-> raw, tenant_name |-> name, theme |-> theme, site_type |-> st,
     ip |-> 1, sub |-> EntrySub(Body(op)[1]),
     password |-> NoSecret, db_exists |-> FALSE, db_creds |-> NoCreds,
     admin_password |-> NoSecret, ret |-> TRUE, db_ret |-> FALSE,
     ev |-> <<>>, resp |-> NoResp, clean |-> FALSE, found |-> FALSE, pre |-> "",
     body_email |-> NoneStr, body_password |-> NonePassword, email |-> <<>>]

Idle == [NewReq("idle", <<>>, <<>>, "", "") EXCEPT !.sub = "idle"]

Running(r) == r.op # "idle" /\ r.sub \notin {"done", "received"}
At(r, call, sub) ==
    /\ Running(r)
    /\ r.ip <= Len(Body(r.op))
    /\ Body(r.op)[r.ip] = call
    /\ r.sub = sub

\* the call returned: go on with the next call of the handler
Advance(r) ==
    [r EXCEPT !.ip = r.ip + 1,
              !.sub = IF r.ip + 1 <= Len(Body(r.op))
                      THEN EntrySub(Body(r.op)[r.ip + 1]) ELSE "done"]

\* an except block that logs the error and lets the handler go on
Raise_swallowed(r, what) ==
    [r EXCEPT !.ip = r.ip + 1,
              !.sub = IF r.ip + 1 <= Len(Body(r.op))
                      THEN EntrySub(Body(r.op)[r.ip + 1]) ELSE "done",
              !.ev = Append(r.ev, Event("logged", <<what>>))]

\* except Exception as e: raise HTTPException(status_code=500, detail=str(e))
Raise(r, what) ==
    [r EXCEPT !.sub = "done",
              !.ev = Append(r.ev, Event("raise", <<what>>)),
              !.resp = [NoResp EXCEPT !.status_code = 500, !.message = <<what>>]]

\* pydantic rejects the request body: 422 before the handler runs
Reject(op, raw) ==
    [NewReq(op, raw, raw, "", "") EXCEPT
        !.sub = "done",
        !.resp = [NoResp EXCEPT !.status_code = 422]]

Log(r, e, id) == [r EXCEPT !.ev = Append(r.ev, Event(e, id))]

\* the requests of other slots that are still running
Others(s) == {t \in Slots \ {s} : Running(reqs[t])}

\* two names that address the same database or the same directory
Touches(m, n) == m = n \/ db_name_of(m) = db_name_of(n)

\* history kept for the create-then-delete round trip: "created" once a create
\* of the name has succeeded, "deleted" once a delete that began in "created"
\* has succeeded, "none" after anything else; a create for m starts
LifeOnStart(m) ==
    [n \in DOMAIN life |-> IF life[n] = "deleted" /\ Touches(m, n) THEN "none" ELSE life[n]]
Disturb(s, m) ==
    [t \in Slots |->
        IF t # s /\ Running(reqs[t]) /\ Touches(m, reqs[t].tenant_name)
        THEN [reqs[t] EXCEPT !.clean = FALSE] ELSE reqs[t]]

\* the handler waits for a call that never returns
Block(r) == [r EXCEPT !.sub = "blocked"]

\* a child process run without a deadline: it returns, fails, or never returns
subprocess_run_unbounded(timeout) == {"returned", "CalledProcessError", "never"}

\* subprocess.run(cmd, check=True, timeout=timeout): the command returns 0,
\* returns non-zero, or is killed when the timeout expires; without a timeout
\* a command that hangs never returns
subprocess_run(timeout) ==
    IF timeout > 0
    THEN {"returned", "CalledProcessError", "TimeoutExpired"}
    ELSE {"returned", "CalledProcessError", "never"}

\* str(e) of subprocess.TimeoutExpired
timed_out_after(timeout) == IF timeout = 120 THEN "timed out after 120 seconds"
                            ELSE "timed out after 60 seconds"

\* an external command or statement fails for a reason outside the model
Fault == faults < scope.max_faults /\ faults' = faults + 1
NoFault == faults' = faults

(***************************************************************************)
(* LocalDockerProvisioner: blueprint materialisation                       *)
(***************************************************************************)
\* f"{value}" of a generated secret inside a rendered file
secret_text(sec) == ToString(sec)

\* the blueprint trees: only the e-commerce one ships storefront-nginx.conf.template
blueprint_has_nginx_template(site_type) == site_type = "ecommerce"

\* number of secrets._render_env_file draws for a site type
env_draws(site_type) == IF site_type \in {"cms", "booking"} THEN 4 ELSE 2

host_of(tenant_name) == tenant_name \o <<".">> \o settings_DOMAIN
admin_host_of(tenant_name) == <<"admin.">> \o tenant_name \o <<".">> \o settings_DOMAIN

env_common(tenant_name, theme, c) ==
    [k \in {"DOMAIN", "TENANT_NAME", "DB_HOST", "DB_PORT", "DB_NAME", "DB_USER",
            "DB_PASSWORD", "THEME"} |->
        CASE k = "DOMAIN" -> settings_DOMAIN
          [] k = "TENANT_NAME" -> tenant_name
          [] k = "DB_HOST" -> c.DB_HOST
          [] k = "DB_PORT" -> c.DB_PORT
          [] k = "DB_NAME" -> c.DB_NAME
          [] k = "DB_USER" -> c.DB_USER
          [] k = "DB_PASSWORD" -> <<secret_text(c.DB_PASSWORD)>>
          [] OTHER -> <<theme>>]

db_url(scheme, c) ==
    <<scheme>> \o c.DB_USER \o <<":", secret_text(c.DB_PASSWORD), "@">> \o c.DB_HOST
        \o <<":">> \o c.DB_PORT \o <<"/">> \o c.DB_NAME \o <<"?sslmode=disable">>

env_ecommerce(tenant_name, c, e) ==
    [k \in {"DATABASE_URL", "REDIS_URL", "SECURE_COOKIES", "STORE_CORS", "ADMIN_CORS",
            "AUTH_CORS", "JWT_SECRET", "COOKIE_SECRET", "BACKEND_URL"} |->
        CASE k = "DATABASE_URL" -> db_url("postgres://", c)
          [] k = "REDIS_URL" -> <<"redis://redis-">> \o tenant_name \o <<":6379">>
          [] k = "SECURE_COOKIES" -> <<"false">>
          [] k = "STORE_CORS" -> <<"http://">> \o host_of(tenant_name)
          [] k = "ADMIN_CORS" -> <<"http://">> \o admin_host_of(tenant_name)
          [] k = "AUTH_CORS" -> <<"http://">> \o admin_host_of(tenant_name)
                                    \o <<",http://">> \o host_of(tenant_name)
          [] k = "JWT_SECRET" -> <<secret_text(token_hex(32, e + 1))>>
          [] k = "COOKIE_SECRET" -> <<secret_text(token_hex(32, e + 2))>>
          [] OTHER -> <<"http://">> \o host_of(tenant_name)]

env_cms(tenant_name, c, e) ==
    [k \in {"KEY", "SECRET", "DB_CLIENT", "DB_HOST", "DB_PORT", "DB_DATABASE",
            "DB_USER", "DB_PASSWORD", "PUBLIC_URL"} |->
        CASE k = "KEY" -> <<secret_text(token_hex(16, e + 3))>>
          [] k = "SECRET" -> <<secret_text(token_hex(16, e + 4))>>
          [] k = "DB_CLIENT" -> <<"pg">>
          [] k = "DB_HOST" -> c.DB_HOST
          [] k = "DB_PORT" -> c.DB_PORT
          [] k = "DB_DATABASE" -> c.DB_NAME
          [] k = "DB_USER" -> c.DB_USER
          [] k = "DB_PASSWORD" -> <<secret_text(c.DB_PASSWORD)>>
          [] OTHER -> <<"http://">> \o admin_host_of(tenant_name)]

env_blog(tenant_name, c) ==
    [k \in {"database__client", "database__connection__host",
            "database__connection__port", "database__connection__user",
            "database__connection__password", "database__connection__database",
            "url"} |->
        CASE k = "database__client" -> <<"pg">>
          [] k = "database__connection__host" -> c.DB_HOST
          [] k = "database__connection__port" -> c.DB_PORT
          [] k = "database__connection__user" -> c.DB_USER
          [] k = "database__connection__password" -> <<secret_text(c.DB_PASSWORD)>>
          [] k = "database__connection__database" -> c.DB_NAME
          [] OTHER -> <<"http://">> \o admin_host_of(tenant_name)]

env_booking(tenant_name, c, e) ==
    [k \in {"DATABASE_URL", "NEXTAUTH_SECRET", "CALENDSO_ENCRYPTION_KEY",
            "NEXT_PUBLIC_WEBAPP_URL"} |->
        CASE k = "DATABASE_URL" -> db_url("postgresql://", c)
          [] k = "NEXTAUTH_SECRET" -> <<secret_text(token_hex(32, e + 3))>>
          [] k = "CALENDSO_ENCRYPTION_KEY" -> <<secret_text(token_hex(24, e + 4))>>
          [] OTHER -> <<"http://">> \o admin_host_of(tenant_name)]

\* an if chain that ends in the e-commerce block instead of in nothing
render_env_file_default_block(tenant_name, theme, c, site_type, e) ==
    LET common == env_common(tenant_name, theme, c)
        block == CASE site_type = "cms" -> env_cms(tenant_name, c, e)
                   [] site_type = "blog" -> env_blog(tenant_name, c)
                   [] site_type = "booking" -> env_booking(tenant_name, c, e)
                   [] OTHER -> env_ecommerce(tenant_name, c, e)
    IN  [k \in (DOMAIN common) \cup (DOMAIN block) |->
            IF k \in DOMAIN block THEN block[k] ELSE common[k]]

\* _render_env_file: the .env written into the tenant directory; a later
\* assignment of a key in the file overrides an earlier one
render_env_file(tenant_name, theme, c, site_type, e) ==
    LET common == env_common(tenant_name, theme, c)
        block == CASE site_type = "ecommerce" -> env_ecommerce(tenant_name, c, e)
                   [] site_type = "cms" -> env_cms(tenant_name, c, e)
                   [] site_type = "blog" -> env_blog(tenant_name, c)
                   [] site_type = "booking" -> env_booking(tenant_name, c, e)
                   [] OTHER -> EmptyMap
    IN  [k \in (DOMAIN common) \cup (DOMAIN block) |->
            IF k \in DOMAIN block THEN block[k] ELSE common[k]]

\* generate_storefront_html: themes.get(theme, themes["fashion"])
storefront_theme(theme) ==
    IF theme \in {"fashion", "electronics", "minimal"} THEN theme ELSE "fashion"

\* a copy made over the directory that is there, without the rmtree: the
\* generated edge configuration and the key injected into it stay
materialise_over_existing(tenant_name, theme, c, site_type, e) ==
    LET kept == IF tenant_name \in DOMAIN tenant_dirs
                THEN tenant_dirs[tenant_name]
                ELSE [nginx_conf |-> FALSE, nginx_key |-> <<>>]
    IN  [blueprint |-> site_type,
         compose_tenant |-> tenant_name,
         env |-> render_env_file(tenant_name, theme, c, site_type, e),
         storefront |-> storefront_theme(theme),
         nginx_conf |-> blueprint_has_nginx_template(site_type) \/ kept.nginx_conf,
         nginx_key |-> kept.nginx_key]

\* _copy_blueprint + _render_env_file + _render_storefront: the tenant directory
\* start_tenant leaves behind, whatever was there before
materialise(tenant_name, theme, c, site_type, e) ==
    [blueprint |-> site_type,
     compose_tenant |-> tenant_name,
     env |-> render_env_file(tenant_name, theme, c, site_type, e),
     storefront |-> storefront_theme(theme),
     nginx_conf |-> blueprint_has_nginx_template(site_type),
     nginx_key |-> <<>>]

(***************************************************************************)
(* POST /create-store                                                      *)
(***************************************************************************)
\* a POST /create-store body arrives
CreateStoreRequest(s) ==
    /\ reqs[s].op = "idle"
    /\ ncreate < scope.max_creates
    /\ ncreate' = ncreate + 1
    /\ \E b \in scope.bodies :
          reqs' = [reqs EXCEPT ![s] =
                [NewReq("create", b.raw, b.raw, b.theme, b.site_type) EXCEPT
                    !.sub = "received"]]
    /\ UNCHANGED <<scope, infra, seeders, entropy, faults, last_creds, life>>

\* the TenantCreate validators run; create_store starts with the validated
\* tenant_name, or the request is answered 422 and the handler never runs
ValidateCreate(s) ==
    LET r == reqs[s]
        n == Validated[r.raw] IN
    /\ r.op = "create"
    /\ r.sub = "received"
    /\ IF n.ok /\ validate_theme(r.theme) /\ validate_site_type(r.site_type)
       THEN /\ reqs' = [Disturb(s, n.v) EXCEPT ![s] =
                    NewReq("create", n.v, n.v, r.theme, r.site_type)]
            /\ life' = LifeOnStart(n.v)
       ELSE /\ reqs' = [reqs EXCEPT ![s] = Reject("create", r.raw)]
            /\ UNCHANGED life
    /\ UNCHANGED <<scope, infra, seeders, entropy, ncreate, faults, last_creds>>

\* provision_tenant_db: password = generate_secure_password(); connect; fetchval
ProvisionFetchval(s) ==
    LET r == reqs[s]
        db_name == db_name_of(r.tenant_name) IN
    /\ At(r, "provision_tenant_db", "fetchval")
    /\ entropy' = entropy + 1
    /\ \/ /\ Fault
          /\ reqs' = [reqs EXCEPT ![s] = Raise(r, "connect")]
       \/ /\ NoFault
          /\ reqs' = [reqs EXCEPT ![s] =
                [Log(r, "SELECT pg_database", db_name) EXCEPT
                    !.password = generate_secure_password(entropy + 1),
                    !.db_exists = sql_db_exists(db_name),
                    !.sub = IF sql_db_exists(db_name) THEN "alter_role" ELSE "create_role"]]
    /\ UNCHANGED <<scope, infra, seeders, ncreate, last_creds, life>>

\* the credentials provision_tenant_db returns
provision_result(r) ==
    [DB_HOST |-> settings_DB_HOST, DB_PORT |-> settings_DB_PORT,
     DB_NAME |-> db_name_of(r.tenant_name), DB_USER |-> role_name_of(r.tenant_name),
     DB_PASSWORD |-> r.password]

ProvisionCreateRole(s) ==
    LET r == reqs[s]
        role_name == role_name_of(r.tenant_name) IN
    /\ At(r, "provision_tenant_db", "create_role")
    /\ \/ /\ Fault
          /\ reqs' = [reqs EXCEPT ![s] = Raise(r, "CREATE ROLE")]
          /\ UNCHANGED pg_roles
       \/ /\ NoFault
          /\ IF sql_create_role_ok(role_name)
             THEN /\ pg_roles' = Put(pg_roles, role_name, r.password)
                  /\ reqs' = [reqs EXCEPT ![s] =
                        [Log(r, "CREATE ROLE", role_name) EXCEPT !.sub = "create_database"]]
             ELSE /\ reqs' = [reqs EXCEPT ![s] = Raise(r, "role already exists")]
                  /\ UNCHANGED pg_roles
    /\ UNCHANGED <<scope, pg_database, tenants, tenant_dirs, containers, seeders, entropy,
                   ncreate, last_creds, life>>

ProvisionCreateDatabase(s) ==
    LET r == reqs[s]
        db_name == db_name_of(r.tenant_name)
        role_name == role_name_of(r.tenant_name) IN
    /\ At(r, "provision_tenant_db", "create_database")
    /\ \/ /\ Fault
          /\ reqs' = [reqs EXCEPT ![s] = Raise(r, "CREATE DATABASE")]
          /\ UNCHANGED pg_database
       \/ /\ NoFault
          /\ IF sql_create_database_ok(db_name, role_name)
             THEN /\ pg_database' = Put(pg_database, db_name,
                                        [owner |-> role_name, acl |-> {},
                                         users |-> EmptyMap, api_key |-> FALSE])
                  /\ reqs' = [reqs EXCEPT ![s] =
                        [Log(r, "CREATE DATABASE", db_name) EXCEPT !.sub = "grant"]]
             ELSE /\ reqs' = [reqs EXCEPT ![s] = Raise(r, "cannot create database")]
                  /\ UNCHANGED pg_database
    /\ UNCHANGED <<scope, pg_roles, tenants, tenant_dirs, containers, seeders, entropy,
                   ncreate, last_creds, life>>

ProvisionGrant(s) ==
    LET r == reqs[s]
        db_name == db_name_of(r.tenant_name)
        role_name == role_name_of(r.tenant_name) IN
    /\ At(r, "provision_tenant_db", "grant")
    /\ \/ /\ Fault
          /\ reqs' = [reqs EXCEPT ![s] = Raise(r, "GRANT")]
          /\ UNCHANGED <<pg_database, last_creds>>
       \/ /\ NoFault
          /\ IF sql_grant_ok(db_name, role_name)
             THEN /\ pg_database' = [pg_database EXCEPT ![db_name].acl = @ \cup {role_name}]
                  /\ reqs' = [reqs EXCEPT ![s] =
                        Advance([Log(r, "GRANT", db_name) EXCEPT
                                    !.db_creds = provision_result(r)])]
                  /\ last_creds' = Put(last_creds, r.tenant_name, provision_result(r))
             ELSE /\ reqs' = [reqs EXCEPT ![s] = Raise(r, "cannot grant")]
                  /\ UNCHANGED <<pg_database, last_creds>>
    /\ UNCHANGED <<scope, pg_roles, tenants, tenant_dirs, containers, seeders, entropy,
                   ncreate, life>>

ProvisionAlterRole(s) ==
    LET r == reqs[s]
        db_name == db_name_of(r.tenant_name)
        role_name == role_name_of(r.tenant_name) IN
    /\ At(r, "provision_tenant_db", "alter_role")
    /\ \/ /\ Fault
          /\ reqs' = [reqs EXCEPT ![s] = Raise(r, "ALTER ROLE")]
          /\ UNCHANGED <<pg_roles, last_creds>>
       \/ /\ NoFault
          /\ IF sql_alter_role_ok(role_name)
             THEN /\ pg_roles' = sql_alter_role(role_name, r.password)
                  /\ reqs' = [reqs EXCEPT ![s] =
                        Advance([Log(r, "ALTER ROLE", role_name) EXCEPT
                                    !.db_creds = provision_result(r)])]
                  /\ last_creds' = Put(last_creds, r.tenant_name, provision_result(r))
             ELSE /\ reqs' = [reqs EXCEPT ![s] = Raise(r, "role does not exist")]
                  /\ UNCHANGED <<pg_roles, last_creds>>
    /\ UNCHANGED <<scope, pg_database, tenants, tenant_dirs, containers, seeders, entropy,
                   ncreate, life>>

\* docker compose up -d: the project's containers are (re)created from the
\* directory's compose file and .env; h is what the health probe reports at first
compose_up(r, h) ==
    [status |-> "running", health |-> h, site_type |-> r.site_type,
     db_name |-> r.db_creds.DB_NAME, db_user |-> r.db_creds.DB_USER,
     db_password |-> r.db_creds.DB_PASSWORD]

\* the rmtree of the existing directory placed ahead of the blueprint check
copy_blueprint_rmtree_first(dirs, tenant_name) == Del(dirs, tenant_name)

\* _copy_blueprint when the blueprint directory is missing: the check comes
\* before the rmtree, so the tenant directories stay as they are
copy_blueprint_missing(dirs, tenant_name) == dirs

\* LocalDockerProvisioner.start_tenant: synchronous, no await inside
StartTenant(s) ==
    LET r == reqs[s]
        n == r.tenant_name IN
    /\ At(r, "start_tenant", "call")
    /\ IF r.site_type \notin scope.blueprints
       THEN \* _copy_blueprint raises FileNotFoundError
            /\ reqs' = [reqs EXCEPT ![s] = Raise(r, "Blueprint source directory not found")]
            /\ tenant_dirs' = copy_blueprint_missing(tenant_dirs, n)
            /\ UNCHANGED <<containers, entropy, faults>>
       ELSE /\ tenant_dirs' = Put(tenant_dirs, n,
                    materialise(n, r.theme, r.db_creds, r.site_type, entropy))
            /\ entropy' = entropy + env_draws(r.site_type)
            /\ \E o \in subprocess_run(120) :
                  \/ /\ o = "CalledProcessError"
                     /\ Fault
                     /\ reqs' = [reqs EXCEPT ![s] =
                           Raise(Log(r, "docker compose up", n),
                                 "Failed to start Docker containers")]
                     /\ UNCHANGED containers
                  \/ /\ o = "TimeoutExpired"
                     /\ Fault
                     /\ reqs' = [reqs EXCEPT ![s] =
                           Raise(Log(r, "docker compose up", n), "docker compose up timed out")]
                     \* the killed command may have started the containers already
                     /\ \/ UNCHANGED containers
                        \/ \E h \in scope.health0 :
                              containers' = Put(containers, n, compose_up(r, h))
                  \/ /\ o = "never"
                     /\ Fault
                     /\ reqs' = [reqs EXCEPT ![s] = Block(Log(r, "docker compose up", n))]
                     /\ UNCHANGED containers
                  \/ /\ o = "returned"
                     /\ NoFault
                     /\ \E h \in scope.health0 :
                           containers' = Put(containers, n, compose_up(r, h))
                     /\ reqs' = [reqs EXCEPT ![s] = Advance(Log(r, "docker compose up", n))]
    /\ UNCHANGED <<scope, pg_database, pg_roles, tenants, seeders, ncreate, last_creds, life>>

\* admin_email = f"admin@{tenant_name}.com"
admin_email_of(tenant_name) == <<"admin@">> \o tenant_name \o <<".com">>

\* the row register_tenant upserts
tenant_row(r) ==
    [site_type |-> r.site_type, theme |-> r.theme,
     admin_email |-> admin_email_of(r.tenant_name),
     db_name |-> r.db_creds.DB_NAME, db_user |-> r.db_creds.DB_USER,
     status |-> "running"]

\* an INSERT that keeps the row it finds: ON CONFLICT (name) DO NOTHING
register_tenant_do_nothing(rows, tenant_name, row) ==
    IF tenant_name \in DOMAIN rows THEN rows ELSE Put(rows, tenant_name, row)

\* INSERT INTO tenants ... ON CONFLICT (name) DO UPDATE SET every column but the
\* name, status = 'running'; name is the primary key of the table
register_tenant(rows, tenant_name, row) == Put(rows, tenant_name, row)

\* admin credentials are generated, then register_tenant runs its INSERT
RegisterTenant(s) ==
    LET r == reqs[s]
        r1 == [r EXCEPT !.admin_password = generate_admin_password(entropy + 1)] IN
    /\ At(r, "register_tenant", "call")
    /\ entropy' = entropy + 1
    /\ \/ /\ Fault
          /\ reqs' = [reqs EXCEPT ![s] = Raise(r1, "INSERT INTO tenants")]
          /\ UNCHANGED tenants
       \/ /\ NoFault
          /\ tenants' = register_tenant(tenants, r.tenant_name, tenant_row(r))
          /\ reqs' = [reqs EXCEPT ![s] = Advance(Log(r1, "INSERT INTO tenants", r.tenant_name))]
    /\ UNCHANGED <<scope, pg_database, pg_roles, tenant_dirs, containers, seeders, ncreate,
                   last_creds, life>>

(***************************************************************************)
(* POST /delete-store                                                      *)
(***************************************************************************)
\* whether anything provisioned answers to this name
Provisioned(n) ==
    \/ n \in DOMAIN tenant_dirs
    \/ n \in DOMAIN tenants
    \/ n \in DOMAIN containers
    \/ db_name_of(n) \in DOMAIN pg_database
    \/ role_name_of(n) \in DOMAIN pg_roles

\* TenantDelete has no validator: delete_store runs with the name as sent
DeleteStoreRequest(s) ==
    /\ reqs[s].op = "idle"
    /\ \E n \in scope.paths :
          /\ reqs' = [Disturb(s, n) EXCEPT ![s] =
                [NewReq("delete", n, n, "", "") EXCEPT
                    !.found = Provisioned(n),
                    !.clean = /\ n \in DOMAIN life
                              /\ life[n] = "created"
                              /\ \A t \in Others(s) : ~Touches(reqs[t].tenant_name, n)]]
    /\ UNCHANGED <<scope, infra, seeders, entropy, ncreate, faults, last_creds, life>>

\* a delete_tenant that does not look whether the directory is there
tenant_dir_assumed(n) == TRUE

\* os.path.exists(tenant_dir)
tenant_dir_exists(n) == n \in DOMAIN tenant_dirs

\* LocalDockerProvisioner.delete_tenant up to the end of docker compose down -v;
\* the seeder thread runs while the handler waits for the command
DeleteTenant(s) ==
    LET r == reqs[s]
        n == r.tenant_name IN
    /\ At(r, "delete_tenant", "call")
    /\ IF ~tenant_dir_exists(n)
       THEN \* tenant_dir_not_found: return False
            /\ reqs' = [reqs EXCEPT ![s] =
                   Advance([Log(r, "delete_tenant", n) EXCEPT !.ret = FALSE])]
            /\ UNCHANGED <<containers, faults>>
       ELSE \E o \in subprocess_run(60) :
            \/ /\ o = "CalledProcessError"
               /\ Fault
               /\ reqs' = [reqs EXCEPT ![s] =
                      Raise(Log(r, "docker compose down", n),
                            "Failed to take down Docker containers")]
               /\ UNCHANGED containers
            \/ \* TimeoutExpired is not caught here: it reaches delete_store
               /\ o = "TimeoutExpired"
               /\ Fault
               /\ reqs' = [reqs EXCEPT ![s] =
                      Raise(Log(r, "docker compose down", n), timed_out_after(60))]
               /\ containers' \in {containers, Del(containers, n)}
            \/ /\ o = "never"
               /\ Fault
               /\ reqs' = [reqs EXCEPT ![s] = Block(Log(r, "docker compose down", n))]
               /\ UNCHANGED containers
            \/ /\ o = "returned"
               /\ NoFault
               /\ containers' = Del(containers, n)
               /\ reqs' = [reqs EXCEPT ![s] =
                      [Log(r, "docker compose down", n) EXCEPT !.sub = "rmtree"]]
    /\ UNCHANGED <<scope, pg_database, pg_roles, tenants, tenant_dirs, seeders, entropy,
                   ncreate, last_creds, life>>

\* a seeder thread is about to open the tenant's nginx configuration for writing
conf_writer(n) ==
    \E k \in DOMAIN seeders : seeders[k].tenant_name = n /\ seeders[k].pc = "conf_write"

\* shutil.rmtree(tenant_dir); return True. A file created in the directory
\* while the tree is being removed makes the final rmdir fail
DeleteTenantRmtree(s) ==
    LET r == reqs[s]
        n == r.tenant_name IN
    /\ At(r, "delete_tenant", "rmtree")
    /\ \/ /\ tenant_dirs' = Del(tenant_dirs, n)
          /\ reqs' = [reqs EXCEPT ![s] =
                Advance(Log(Log(r, "rmtree", n), "delete_tenant", n))]
       \/ /\ conf_writer(n)
          /\ reqs' = [reqs EXCEPT ![s] = Raise(Log(r, "rmtree", n), "Directory not empty")]
          /\ UNCHANGED tenant_dirs
    /\ UNCHANGED <<scope, pg_database, pg_roles, tenants, containers, seeders, entropy,
                   ncreate, faults, last_creds, life>>

\* the statements issued with the role dropped ahead of its database
delete_tenant_db_role_first == <<"terminate", "drop_role", "drop_database">>

\* the statements delete_tenant_db issues for a database that exists, in
\* program order
delete_tenant_db_statements == <<"terminate", "drop_database", "drop_role">>

\* where delete_tenant_db goes once the statement at `sub` has been executed
StatementAfter(sub) ==
    LET i == CHOOSE j \in 1..Len(delete_tenant_db_statements) :
                 delete_tenant_db_statements[j] = sub
    IN  IF i < Len(delete_tenant_db_statements)
        THEN delete_tenant_db_statements[i + 1] ELSE "return"

\* the statement logged as e has been executed: issue the next one, or return
Executed(r, e, id) ==
    IF StatementAfter(r.sub) = "return"
    THEN \* return True
         Advance([Log(Log(r, e, id), "delete_tenant_db", db_name_of(r.tenant_name))
                     EXCEPT !.db_ret = TRUE])
    ELSE [Log(r, e, id) EXCEPT !.sub = StatementAfter(r.sub)]

\* delete_tenant_db: connect; fetchval
DeleteDbFetchval(s) ==
    LET r == reqs[s]
        db_name == db_name_of(r.tenant_name) IN
    /\ At(r, "delete_tenant_db", "fetchval")
    /\ \/ /\ Fault
          /\ reqs' = [reqs EXCEPT ![s] = Raise(r, "connect")]
       \/ /\ NoFault
          /\ reqs' = [reqs EXCEPT ![s] =
                IF sql_db_exists(db_name)
                THEN [Log(r, "SELECT pg_database", db_name) EXCEPT
                        !.db_exists = TRUE, !.sub = delete_tenant_db_statements[1]]
                ELSE \* "not found - skipping"; return True
                     Advance([Log(Log(r, "SELECT pg_database", db_name),
                                  "delete_tenant_db", db_name) EXCEPT !.db_ret = TRUE])]
    /\ UNCHANGED <<scope, infra, seeders, entropy, ncreate, last_creds, life>>

\* SELECT pg_terminate_backend(pid) FROM pg_stat_activity WHERE datname = $1
DeleteDbTerminate(s) ==
    LET r == reqs[s]
        db_name == db_name_of(r.tenant_name) IN
    /\ At(r, "delete_tenant_db", "terminate")
    /\ \/ /\ Fault
          /\ reqs' = [reqs EXCEPT ![s] = Raise(r, "pg_terminate_backend")]
       \/ /\ NoFault
          /\ reqs' = [reqs EXCEPT ![s] = Executed(r, "pg_terminate_backend", db_name)]
    /\ UNCHANGED <<scope, infra, seeders, entropy, ncreate, last_creds, life>>

DeleteDbDropDatabase(s) ==
    LET r == reqs[s]
        db_name == db_name_of(r.tenant_name) IN
    /\ At(r, "delete_tenant_db", "drop_database")
    /\ \/ /\ Fault
          /\ reqs' = [reqs EXCEPT ![s] = Raise(r, "DROP DATABASE")]
          /\ UNCHANGED pg_database
       \/ /\ NoFault
          /\ IF sql_drop_database_ok(db_name)
             THEN /\ pg_database' = Del(pg_database, db_name)
                  /\ reqs' = [reqs EXCEPT ![s] = Executed(r, "DROP DATABASE", db_name)]
             ELSE /\ reqs' = [reqs EXCEPT ![s] = Raise(r, "database does not exist")]
                  /\ UNCHANGED pg_database
    /\ UNCHANGED <<scope, pg_roles, tenants, tenant_dirs, containers, seeders, entropy,
                   ncreate, last_creds, life>>

DeleteDbDropRole(s) ==
    LET r == reqs[s]
        db_name == db_name_of(r.tenant_name)
        role_name == role_name_of(r.tenant_name) IN
    /\ At(r, "delete_tenant_db", "drop_role")
    /\ \/ /\ Fault
          /\ reqs' = [reqs EXCEPT ![s] = Raise(r, "DROP ROLE")]
          /\ UNCHANGED pg_roles
       \/ /\ NoFault
          /\ IF sql_drop_role_ok(role_name)
             THEN /\ pg_roles' = Del(pg_roles, role_name)
                  /\ reqs' = [reqs EXCEPT ![s] = Executed(r, "DROP ROLE", role_name)]
             ELSE /\ reqs' = [reqs EXCEPT ![s] = Raise(r, "role cannot be dropped")]
                  /\ UNCHANGED pg_roles
    /\ UNCHANGED <<scope, pg_database, tenants, tenant_dirs, containers, seeders, entropy,
                   ncreate, last_creds, life>>

\* deregister_tenant: DELETE FROM tenants WHERE name = $1
DeregisterTenant(s) ==
    LET r == reqs[s] IN
    /\ At(r, "deregister_tenant", "call")
    /\ \/ /\ Fault
          /\ reqs' = [reqs EXCEPT ![s] = Raise(r, "DELETE FROM tenants")]
          /\ UNCHANGED tenants
       \/ /\ NoFault
          /\ tenants' = Del(tenants, r.tenant_name)
          /\ reqs' = [reqs EXCEPT ![s] = Advance(Log(r, "DELETE FROM tenants", r.tenant_name))]
    /\ UNCHANGED <<scope, pg_database, pg_roles, tenant_dirs, containers, seeders, entropy,
                   ncreate, last_creds, life>>

(***************************************************************************)
(* Responses                                                               *)
(***************************************************************************)
\* the thread create_store starts: seed_in_background with its closure variables
NewSeeder(tenant_name, site_type, email, password) ==
    [pc |-> "start", tenant_name |-> tenant_name, site_type |-> site_type,
     email |-> email, password |-> password,
     attempt |-> 0, probes |-> 0, sleeps |-> 0, token |-> <<>>, conf |-> <<>>,
     seeded |-> FALSE, injected |-> FALSE, reset_db |-> <<>>, log |-> "", caller |-> 0]

\* a thread that is handed the database password instead
seed_closure_password_db(r) == r.password

\* the password seed_in_background finds in its closure: admin_password of
\* create_store
seed_closure_password(r) == r.admin_password

\* threading.Thread(target=seed_in_background, daemon=True).start()
SeedThread(s) ==
    LET r == reqs[s] IN
    /\ At(r, "seed_thread", "call")
    /\ seeders' = Append(seeders, NewSeeder(r.tenant_name, r.site_type,
                                            admin_email_of(r.tenant_name),
                                            seed_closure_password(r)))
    /\ reqs' = [reqs EXCEPT ![s] = Advance(Log(r, "thread start", r.tenant_name))]
    /\ UNCHANGED <<scope, infra, entropy, ncreate, faults, last_creds, life>>

\* the body create_store returns
create_response(r) ==
    [status_code |-> 200, status |-> "success",
     message |-> <<"Store '">> \o r.tenant_name \o <<"' provisioned. Backend starting.">>,
     storefront |-> <<"http://">> \o r.tenant_name \o <<".">> \o settings_DOMAIN,
     admin |-> <<"http://", "admin.">> \o r.tenant_name \o <<".">> \o settings_DOMAIN
                    \o <<"/app">>,
     email |-> admin_email_of(r.tenant_name),
     password |-> r.admin_password]

\* the body delete_store returns
delete_response(r) ==
    [NoResp EXCEPT !.status_code = 200, !.status = "success",
        !.message = <<"Store '">> \o r.tenant_name \o <<"' completely removed.">>]

CreateStoreReturn(s) ==
    LET r == reqs[s] IN
    /\ r.op = "create"
    /\ At(r, "return", "call")
    /\ reqs' = [reqs EXCEPT ![s] =
            [Log(r, "return", r.tenant_name) EXCEPT !.sub = "done", !.resp = create_response(r)]]
    /\ life' = Put(life, r.tenant_name, "created")
    /\ UNCHANGED <<scope, infra, seeders, entropy, ncreate, faults, last_creds>>

DeleteStoreReturn(s) ==
    LET r == reqs[s] IN
    /\ r.op = "delete"
    /\ At(r, "return", "call")
    /\ reqs' = [reqs EXCEPT ![s] =
            [Log(r, "return", r.tenant_name) EXCEPT !.sub = "done", !.resp = delete_response(r)]]
    /\ life' = IF r.clean THEN Put(life, r.tenant_name, "deleted")
               ELSE [n \in DOMAIN life |->
                        IF life[n] = "created" /\ Touches(r.tenant_name, n)
                        THEN "none" ELSE life[n]]
    /\ UNCHANGED <<scope, infra, seeders, entropy, ncreate, faults, last_creds>>

\* the response has been sent: the slot is free again
Respond(s) ==
    /\ reqs[s].sub = "done"
    /\ reqs' = [reqs EXCEPT ![s] = Idle]
    /\ UNCHANGED <<scope, infra, seeders, entropy, ncreate, faults, last_creds, life>>

(***************************************************************************)
(* POST /tenants/{tenant_name}/suspend and /resume                         *)
(***************************************************************************)
\* the body suspend_tenant / resume_tenant returns
toggle_response(n, word) ==
    [NoResp EXCEPT !.status_code = 200, !.status = "success",
        !.message = <<"Tenant '">> \o n \o <<"' ">> \o <<word>>]

\* history: the state of the project's containers when a handler starts
compose_ps(n) == IF n \in DOMAIN containers THEN containers[n].status ELSE "absent"

\* docker compose stop: the project's containers, if any, stop
compose_stop(n) ==
    IF n \in DOMAIN containers THEN [containers EXCEPT ![n].status = "exited"] ELSE containers

\* the start command written as the stop command
compose_start_as_stop(n) ==
    IF n \in DOMAIN containers THEN [containers EXCEPT ![n].status = "exited"] ELSE containers

\* docker compose start: the project's existing containers, if any, start
compose_start(n) ==
    IF n \in DOMAIN containers THEN [containers EXCEPT ![n].status = "running"] ELSE containers

\* a suspend or resume that runs its command without looking for the directory
toggle_dir_assumed(n) == TRUE

\* os.path.exists(tenant_dir) in suspend_tenant and resume_tenant
toggle_dir_exists(n) == n \in DOMAIN tenant_dirs

\* suspend_tenant: the handler and LocalDockerProvisioner.suspend_tenant hold no
\* await, so request, command and response are one step of the event loop
SuspendTenant(s) ==
    /\ reqs[s].op = "idle"
    /\ \E n \in scope.paths :
          LET r == [NewReq("suspend", n, n, "", "") EXCEPT
                        !.found = Provisioned(n), !.pre = compose_ps(n)] IN
          /\ IF ~toggle_dir_exists(n)
             THEN /\ reqs' = [Disturb(s, n) EXCEPT ![s] = Raise(r, "Tenant directory not found")]
                  /\ UNCHANGED <<containers, faults>>
             ELSE \E o \in subprocess_run(60) :
                  \/ /\ o = "CalledProcessError"
                     /\ Fault
                     /\ reqs' = [Disturb(s, n) EXCEPT ![s] =
                            Raise(Log(r, "docker compose stop", n), "Failed to suspend tenant")]
                     /\ UNCHANGED containers
                  \/ \* TimeoutExpired is not caught by the provisioner: the handler's
                     \* except Exception answers it
                     /\ o = "TimeoutExpired"
                     /\ Fault
                     /\ reqs' = [Disturb(s, n) EXCEPT ![s] =
                            Raise(Log(r, "docker compose stop", n), timed_out_after(60))]
                     /\ containers' \in {containers, compose_stop(n)}
                  \/ /\ o = "never"
                     /\ Fault
                     /\ reqs' = [Disturb(s, n) EXCEPT ![s] =
                            Block(Log(r, "docker compose stop", n))]
                     /\ UNCHANGED containers
                  \/ /\ o = "returned"
                     /\ NoFault
                     /\ containers' = compose_stop(n)
                     /\ reqs' = [Disturb(s, n) EXCEPT ![s] =
                            [Log(Log(r, "docker compose stop", n), "return", n) EXCEPT
                                !.sub = "done", !.resp = toggle_response(n, "suspended.")]]
    /\ UNCHANGED <<scope, pg_database, pg_roles, tenants, tenant_dirs, seeders, entropy,
                   ncreate, last_creds, life>>

ResumeTenant(s) ==
    /\ reqs[s].op = "idle"
    /\ \E n \in scope.paths :
          LET r == [NewReq("resume", n, n, "", "") EXCEPT
                        !.found = Provisioned(n), !.pre = compose_ps(n)] IN
          /\ IF ~toggle_dir_exists(n)
             THEN /\ reqs' = [Disturb(s, n) EXCEPT ![s] = Raise(r, "Tenant directory not found")]
                  /\ UNCHANGED <<containers, faults>>
             ELSE \E o \in subprocess_run(60) :
                  \/ /\ o = "CalledProcessError"
                     /\ Fault
                     /\ reqs' = [Disturb(s, n) EXCEPT ![s] =
                            Raise(Log(r, "docker compose start", n), "Failed to resume tenant")]
                     /\ UNCHANGED containers
                  \/ \* TimeoutExpired is not caught by the provisioner: the handler's
                     \* except Exception answers it
                     /\ o = "TimeoutExpired"
                     /\ Fault
                     /\ reqs' = [Disturb(s, n) EXCEPT ![s] =
                            Raise(Log(r, "docker compose start", n), timed_out_after(60))]
                     /\ containers' \in {containers, compose_start(n)}
                  \/ /\ o = "never"
                     /\ Fault
                     /\ reqs' = [Disturb(s, n) EXCEPT ![s] =
                            Block(Log(r, "docker compose start", n))]
                     /\ UNCHANGED containers
                  \/ /\ o = "returned"
                     /\ NoFault
                     /\ containers' = compose_start(n)
                     /\ reqs' = [Disturb(s, n) EXCEPT ![s] =
                            [Log(Log(r, "docker compose start", n), "return", n) EXCEPT
                                !.sub = "done", !.resp = toggle_response(n, "resumed.")]]
    /\ UNCHANGED <<scope, pg_database, pg_roles, tenants, tenant_dirs, seeders, entropy,
                   ncreate, last_creds, life>>

(***************************************************************************)
(* Background seeder: seed_in_background running in its own thread         *)
(***************************************************************************)
\* for attempt in range(30) in seed_admin_user
HEALTH_ATTEMPTS == 30
\* for _ in range(30) in fetch_and_inject_publishable_key
KEY_ATTEMPTS == 30

Threads == DOMAIN seeders

SeederFrame == UNCHANGED <<scope, reqs, entropy, ncreate, last_creds, life>>

\* seed_in_background: only e-commerce tenants are seeded
SeederStart(k) ==
    LET t == seeders[k] IN
    /\ t.pc = "start"
    /\ seeders' = [seeders EXCEPT ![k] =
            IF t.site_type = "ecommerce"
            THEN [t EXCEPT !.pc = "health"]
            ELSE [t EXCEPT !.pc = "done", !.log = "auto_seed_skipped"]]
    /\ UNCHANGED <<infra, faults>>
    /\ SeederFrame

\* docker inspect --format={{.State.Health.Status}} medusa-<tenant>: stdout, stripped
docker_inspect_health(n) ==
    IF n \in DOMAIN containers /\ containers[n].health # "none"
    THEN containers[n].health
    ELSE ""

\* a loop that keeps polling a container that has no health status
health_verdict_nograce(health) ==
    CASE health = "healthy" -> "break"
      [] OTHER -> "again"

\* a loop that goes on as soon as the container answers at all
health_verdict_lenient(health) ==
    CASE health = "unhealthy" -> "again"
      [] health \in {"", "none"} -> "grace"
      [] OTHER -> "break"

\* what the health loop does with the status it read: break at once, sleep
\* once and break, or sleep and probe again
health_verdict(health) ==
    CASE health = "healthy" -> "break"
      [] health \in {"", "none"} -> "grace"
      [] OTHER -> "again"

\* seed_admin_user raises: seed_in_background logs auto_seed_failed, the
\* seed_admin handler (caller > 0) gets the exception
seed_raise(t) ==
    [t EXCEPT !.pc = "done", !.log = IF t.caller = 0 THEN "auto_seed_failed" ELSE "raise"]

\* seed_admin_user returns True: seed_in_background goes on to the publishable
\* key, the seed_admin handler gets its answer
seed_return(t) ==
    [t EXCEPT !.pc = IF t.caller = 0 THEN "key_poll" ELSE "done",
              !.attempt = 0, !.seeded = TRUE]

\* one pass of the health loop: probe, then break or sleep
SeederProbe(k) ==
    LET t == seeders[k]
        health == docker_inspect_health(t.tenant_name)
        slept == [t EXCEPT !.attempt = t.attempt + 1, !.probes = t.probes + 1,
                           !.sleeps = t.sleeps + 1]
        again == IF t.attempt + 1 < HEALTH_ATTEMPTS THEN slept ELSE seed_raise(slept) IN
    /\ t.pc = "health"
    /\ \/ /\ Fault
          /\ seeders' = [seeders EXCEPT ![k] = again]
       \/ /\ NoFault
          /\ seeders' = [seeders EXCEPT ![k] =
                CASE health_verdict(health) = "break" ->
                        [t EXCEPT !.probes = t.probes + 1, !.pc = "clear"]
                  [] health_verdict(health) = "grace" ->
                        [t EXCEPT !.probes = t.probes + 1, !.sleeps = t.sleeps + 1,
                                  !.pc = "clear"]
                  [] OTHER -> again]
    /\ UNCHANGED infra
    /\ SeederFrame

\* db_name = f"db_{tenant_name}" in seed_admin_user
seeder_db_name(tenant_name) == <<"db_">> \o tenant_name

\* psql -d db_<tenant_name> -c "DELETE FROM auth_identity ...; DELETE FROM user ...":
\* the outcome of the command is not looked at
SeederClear(k) ==
    LET t == seeders[k]
        db_name == seeder_db_name(t.tenant_name) IN
    /\ t.pc = "clear"
    /\ seeders' = [seeders EXCEPT ![k] = [t EXCEPT !.pc = "seed", !.reset_db = db_name]]
    /\ \/ /\ Fault
          /\ UNCHANGED pg_database
       \/ /\ NoFault
          /\ pg_database' =
                IF db_name \in DOMAIN pg_database
                THEN [pg_database EXCEPT ![db_name].users = Del(@, t.email)]
                ELSE pg_database
    /\ UNCHANGED <<pg_roles, tenants, tenant_dirs, containers>>
    /\ SeederFrame

\* whether `npx medusa user` inside the tenant's container can create the identity:
\* the container runs, reaches its database, and the email is not taken
medusa_user_ok(n, email) ==
    /\ n \in DOMAIN containers
    /\ containers[n].status = "running"
    /\ containers[n].db_name \in DOMAIN pg_database
    /\ containers[n].db_user \in DOMAIN pg_roles
    /\ pg_roles[containers[n].db_user] = containers[n].db_password
    /\ email \notin DOMAIN pg_database[containers[n].db_name].users

\* docker exec medusa-<tenant> npx medusa user -e <email> -p <password>
SeederSeed(k) ==
    LET t == seeders[k]
        n == t.tenant_name IN
    /\ t.pc = "seed"
    /\ \/ /\ Fault
          /\ seeders' = [seeders EXCEPT ![k] = seed_raise(t)]
          /\ UNCHANGED pg_database
       \/ /\ NoFault
          /\ IF medusa_user_ok(n, t.email)
             THEN /\ pg_database' = [pg_database EXCEPT
                        ![containers[n].db_name].users = Put(@, t.email, t.password)]
                  /\ seeders' = [seeders EXCEPT ![k] = seed_return(t)]
             ELSE /\ seeders' = [seeders EXCEPT ![k] = seed_raise(t)]
                  /\ UNCHANGED pg_database
    /\ UNCHANGED <<pg_roles, tenants, tenant_dirs, containers>>
    /\ SeederFrame

\* the publishable token the tenant database holds, "" when there is none
select_publishable_token(db_name) ==
    IF db_name \in DOMAIN pg_database /\ pg_database[db_name].api_key
    THEN <<"pk_">> \o db_name
    ELSE <<>>

\* a key loop written as while True
key_retry_unbounded(t) == [t EXCEPT !.attempt = t.attempt + 1, !.pc = "key_poll"]

\* the next pass of the key loop after time.sleep(5), or the end of the loop:
\* fetch_and_inject_publishable_key returns False and seed_in_background goes on
key_retry(t) ==
    IF t.attempt + 1 < KEY_ATTEMPTS
    THEN [t EXCEPT !.attempt = t.attempt + 1, !.pc = "key_poll"]
    ELSE [t EXCEPT !.attempt = t.attempt + 1, !.pc = "done", !.log = "auto_seed_complete"]

\* psql -t -c "SELECT token FROM api_key WHERE type='publishable' LIMIT 1;"
SeederKeyPoll(k) ==
    LET t == seeders[k]
        token == select_publishable_token(db_name_of(t.tenant_name)) IN
    /\ t.pc = "key_poll"
    /\ \/ /\ Fault
          /\ seeders' = [seeders EXCEPT ![k] = key_retry(t)]
       \/ /\ NoFault
          /\ seeders' = [seeders EXCEPT ![k] =
                IF Len(token) > 0 /\ token[1] = "pk_"
                THEN [t EXCEPT !.token = token, !.pc = "conf_exists"]
                ELSE key_retry(t)]
    /\ UNCHANGED infra
    /\ SeederFrame

conf_present(n) == n \in DOMAIN tenant_dirs /\ tenant_dirs[n].nginx_conf

\* os.path.exists(nginx_conf_path)
SeederConfExists(k) ==
    LET t == seeders[k] IN
    /\ t.pc = "conf_exists"
    /\ seeders' = [seeders EXCEPT ![k] =
            [t EXCEPT !.pc = IF conf_present(t.tenant_name) THEN "conf_read" ELSE "reload"]]
    /\ UNCHANGED <<infra, faults>>
    /\ SeederFrame

\* open(nginx_conf_path, "r").read(): FileNotFoundError is caught by the loop
SeederConfRead(k) ==
    LET t == seeders[k]
        n == t.tenant_name IN
    /\ t.pc = "conf_read"
    /\ seeders' = [seeders EXCEPT ![k] =
            IF conf_present(n)
            THEN [t EXCEPT !.conf = tenant_dirs[n].nginx_key, !.pc = "conf_write"]
            ELSE key_retry(t)]
    /\ UNCHANGED <<infra, faults>>
    /\ SeederFrame

\* conf_data.replace(placeholder, token): only a placeholder still there is replaced
conf_replace(conf, token) == IF conf = <<>> THEN token ELSE conf

\* the write creating the directories of the path that are missing
open_w_makedirs(n, data) ==
    IF n \in DOMAIN tenant_dirs
    THEN [tenant_dirs EXCEPT ![n].nginx_conf = TRUE, ![n].nginx_key = data]
    ELSE Put(tenant_dirs, n,
             [blueprint |-> "", compose_tenant |-> <<>>, env |-> EmptyMap, storefront |-> "",
              nginx_conf |-> TRUE, nginx_key |-> data])

\* open(nginx_conf_path, "w").write(conf_data): the file is created or replaced
\* inside an existing directory; nothing is written when the directory is gone
open_w(n, data) ==
    IF n \in DOMAIN tenant_dirs
    THEN [tenant_dirs EXCEPT ![n].nginx_conf = TRUE, ![n].nginx_key = data]
    ELSE tenant_dirs

\* the write of the injected configuration; FileNotFoundError is caught by the loop
SeederConfWrite(k) ==
    LET t == seeders[k]
        n == t.tenant_name IN
    /\ t.pc = "conf_write"
    /\ tenant_dirs' = open_w(n, conf_replace(t.conf, t.token))
    /\ seeders' = [seeders EXCEPT ![k] =
            IF n \in DOMAIN tenant_dirs' THEN [t EXCEPT !.pc = "reload"] ELSE key_retry(t)]
    /\ UNCHANGED <<pg_database, pg_roles, tenants, containers, faults>>
    /\ SeederFrame

\* docker exec storefront-<tenant> nginx -s reload; then return True
SeederReload(k) ==
    LET t == seeders[k] IN
    /\ t.pc = "reload"
    /\ \/ /\ Fault
          /\ seeders' = [seeders EXCEPT ![k] = key_retry(t)]
       \/ /\ NoFault
          /\ seeders' = [seeders EXCEPT ![k] =
                [t EXCEPT !.pc = "done", !.injected = TRUE, !.log = "auto_seed_complete"]]
    /\ UNCHANGED infra
    /\ SeederFrame

(***************************************************************************)
(* The tenant's containers, on their own                                   *)
(***************************************************************************)
\* the health probe of a running container changes its verdict
HealthChange ==
    /\ \E n \in DOMAIN containers, h \in {"healthy", "unhealthy"} :
          /\ containers[n].status = "running"
          /\ containers[n].health \notin {"none", h}
          /\ containers' = [containers EXCEPT ![n].health = h]
    /\ UNCHANGED <<scope, pg_database, pg_roles, tenants, tenant_dirs, reqs, seeders,
                   entropy, ncreate, faults, last_creds, life>>

\* a healthy e-commerce backend has run its migrations: the publishable key exists
MedusaMigrate ==
    /\ \E n \in DOMAIN containers :
          /\ containers[n].status = "running"
          /\ containers[n].health \in {"healthy", "none"}
          /\ containers[n].site_type = "ecommerce"
          /\ containers[n].db_name \in DOMAIN pg_database
          /\ containers[n].db_user \in DOMAIN pg_roles
          /\ pg_roles[containers[n].db_user] = containers[n].db_password
          /\ ~pg_database[containers[n].db_name].api_key
          /\ pg_database' = [pg_database EXCEPT ![containers[n].db_name].api_key = TRUE]
    /\ UNCHANGED <<scope, pg_roles, tenants, tenant_dirs, containers, reqs, seeders,
                   entropy, ncreate, faults, last_creds, life>>

(***************************************************************************)
(* Specification                                                           *)
(***************************************************************************)
Init ==
    /\ pg_database = EmptyMap
    /\ pg_roles = EmptyMap
    /\ tenants = EmptyMap
    /\ tenant_dirs = EmptyMap
    /\ containers = EmptyMap
    /\ reqs = [s \in SlotIds |-> Idle]
    /\ seeders = <<>>
    /\ entropy = 0
    /\ ncreate = 0
    /\ faults = 0
    /\ last_creds = EmptyMap
    /\ life = EmptyMap
    /\ scope = [bodies |-> CreateBodies, paths |-> PathNames, blueprints |-> Blueprints,
                health0 |-> {"starting"},
                max_creates |-> MaxCreates, max_faults |-> MaxFaults]

CreateSteps ==
    \/ \E s \in Slots : CreateStoreRequest(s)
    \/ \E s \in Slots : ValidateCreate(s)
    \/ \E s \in Slots : ProvisionFetchval(s)
    \/ \E s \in Slots : ProvisionCreateRole(s)
    \/ \E s \in Slots : ProvisionCreateDatabase(s)
    \/ \E s \in Slots : ProvisionGrant(s)
    \/ \E s \in Slots : StartTenant(s)
    \/ \E s \in Slots : RegisterTenant(s)
    \/ \E s \in Slots : SeedThread(s)
    \/ \E s \in Slots : CreateStoreReturn(s)
    \/ \E s \in Slots : Respond(s)

DeleteSteps ==
    \/ \E s \in Slots : DeleteStoreRequest(s)
    \/ \E s \in Slots : DeleteTenant(s)
    \/ \E s \in Slots : DeleteTenantRmtree(s)
    \/ \E s \in Slots : DeleteDbFetchval(s)
    \/ \E s \in Slots : DeleteDbTerminate(s)
    \/ \E s \in Slots : DeleteDbDropDatabase(s)
    \/ \E s \in Slots : DeleteDbDropRole(s)
    \/ \E s \in Slots : DeregisterTenant(s)
    \/ \E s \in Slots : DeleteStoreReturn(s)

Next ==
    \/ CreateSteps
    \/ \E s \in Slots : ProvisionAlterRole(s)
    \/ DeleteSteps
    \/ \E s \in Slots : SuspendTenant(s)
    \/ \E s \in Slots : ResumeTenant(s)

Spec == Init /\ [][Next]_vars


(***************************************************************************)
(* One tenant with the seeder thread and the containers running alongside  *)
(* the handlers                                                            *)
(***************************************************************************)
SeedNames == { <<"a","-","b">> }
SeedBodies == { [raw |-> n, theme |-> "fashion", site_type |-> st] :
                    n \in SeedNames, st \in {"ecommerce", "blog"} }

SeedInit ==
    /\ pg_database = EmptyMap
    /\ pg_roles = EmptyMap
    /\ tenants = EmptyMap
    /\ tenant_dirs = EmptyMap
    /\ containers = EmptyMap
    /\ reqs = [s \in SlotIds |-> Idle]
    /\ seeders = <<>>
    /\ entropy = 0
    /\ ncreate = 0
    /\ faults = 0
    /\ last_creds = EmptyMap
    /\ life = EmptyMap
    /\ scope = [bodies |-> SeedBodies, paths |-> SeedNames, blueprints |-> Blueprints,
                health0 |-> {"starting", "none"},
                max_creates |-> 1, max_faults |-> MaxFaults]

SeedNext ==
    \/ CreateSteps
    \/ DeleteSteps
    \/ \E k \in Threads : SeederStart(k)
    \/ \E k \in Threads : SeederProbe(k)
    \/ \E k \in Threads : SeederClear(k)
    \/ \E k \in Threads : SeederSeed(k)
    \/ \E k \in Threads : SeederKeyPoll(k)
    \/ \E k \in Threads : SeederConfExists(k)
    \/ \E k \in Threads : SeederConfRead(k)
    \/ \E k \in Threads : SeederConfWrite(k)
    \/ \E k \in Threads : SeederReload(k)
    \/ HealthChange
    \/ MedusaMigrate

SeedSpec == SeedInit /\ [][SeedNext]_vars

(***************************************************************************)
(* The handlers under a fair event loop                                    *)
(***************************************************************************)
\* what the event loop does for the request in slot s once it has arrived
Serve(s) ==
    \/ ValidateCreate(s)
    \/ ProvisionFetchval(s)
    \/ ProvisionCreateRole(s)
    \/ ProvisionCreateDatabase(s)
    \/ ProvisionGrant(s)
    \/ ProvisionAlterRole(s)
    \/ StartTenant(s)
    \/ RegisterTenant(s)
    \/ SeedThread(s)
    \/ CreateStoreReturn(s)
    \/ DeleteTenant(s)
    \/ DeleteTenantRmtree(s)
    \/ DeleteDbFetchval(s)
    \/ DeleteDbTerminate(s)
    \/ DeleteDbDropDatabase(s)
    \/ DeleteDbDropRole(s)
    \/ DeregisterTenant(s)
    \/ DeleteStoreReturn(s)

\* one tenant name, sent as an e-commerce site, as a blog and as a site type
\* that has no blueprint
LiveBodies == { [raw |-> n, theme |-> "fashion", site_type |-> st] :
                    n \in SeedNames, st \in {"ecommerce", "blog", "cms"} }

LiveInit ==
    /\ pg_database = EmptyMap
    /\ pg_roles = EmptyMap
    /\ tenants = EmptyMap
    /\ tenant_dirs = EmptyMap
    /\ containers = EmptyMap
    /\ reqs = [s \in SlotIds |-> Idle]
    /\ seeders = <<>>
    /\ entropy = 0
    /\ ncreate = 0
    /\ faults = 0
    /\ last_creds = EmptyMap
    /\ life = EmptyMap
    /\ scope = [bodies |-> LiveBodies, paths |-> SeedNames, blueprints |-> Blueprints,
                health0 |-> {"starting"},
                max_creates |-> MaxCreates, max_faults |-> MaxFaults]

\* the event loop keeps running a handler whose call has returned; a database
\* statement returns or fails
LiveSpec == LiveInit /\ [][Next]_vars /\ \A s \in SlotIds : WF_vars(Serve(s))

\* the steps of seed_admin_user in thread k: every subprocess.run in it has a
\* timeout and every time.sleep returns
SeedAdminUserStep(k) ==
    /\ k \in Threads
    /\ SeederStart(k) \/ SeederProbe(k) \/ SeederClear(k) \/ SeederSeed(k)

\* the threads of the one create these behaviours admit
SeederIds == {1}

\* one e-commerce or blog tenant whose backend starts without being healthy;
\* the thread is followed to the end of seed_admin_user
SeedLiveInit ==
    /\ pg_database = EmptyMap
    /\ pg_roles = EmptyMap
    /\ tenants = EmptyMap
    /\ tenant_dirs = EmptyMap
    /\ containers = EmptyMap
    /\ reqs = [s \in SlotIds |-> Idle]
    /\ seeders = <<>>
    /\ entropy = 0
    /\ ncreate = 0
    /\ faults = 0
    /\ last_creds = EmptyMap
    /\ life = EmptyMap
    /\ scope = [bodies |-> SeedBodies, paths |-> SeedNames, blueprints |-> Blueprints,
                health0 |-> {"starting"},
                max_creates |-> 1, max_faults |-> MaxFaults]

SeedLiveNext ==
    \/ CreateSteps
    \/ DeleteSteps
    \/ \E k \in Threads : SeederStart(k)
    \/ \E k \in Threads : SeederProbe(k)
    \/ \E k \in Threads : SeederClear(k)
    \/ \E k \in Threads : SeederSeed(k)
    \/ HealthChange

\* a scheduler that keeps running a thread that can run, and an event loop
\* that keeps running a handler
SeedLiveSpec ==
    /\ SeedLiveInit /\ [][SeedLiveNext]_vars
    /\ \A k \in SeederIds : WF_vars(SeedAdminUserStep(k))
    /\ \A s \in SlotIds : WF_vars(Serve(s))

(***************************************************************************)
(* A control-plane host that holds a blueprint for every site type         *)
(***************************************************************************)
\* one tenant name sent with each of the five site types
EnvBodies == { [raw |-> n, theme |-> "electronics", site_type |-> st] :
                   n \in SeedNames, st \in AllowedSiteTypes }

EnvInit ==
    /\ pg_database = EmptyMap
    /\ pg_roles = EmptyMap
    /\ tenants = EmptyMap
    /\ tenant_dirs = EmptyMap
    /\ containers = EmptyMap
    /\ reqs = [s \in SlotIds |-> Idle]
    /\ seeders = <<>>
    /\ entropy = 0
    /\ ncreate = 0
    /\ faults = 0
    /\ last_creds = EmptyMap
    /\ life = EmptyMap
    /\ scope = [bodies |-> EnvBodies, paths |-> SeedNames, blueprints |-> AllowedSiteTypes,
                health0 |-> {"starting"},
                max_creates |-> MaxCreates, max_faults |-> MaxFaults]

EnvSpec == EnvInit /\ [][Next]_vars

(***************************************************************************)
(* The first revision of the API (src/api): POST /create-store             *)
(***************************************************************************)
api_settings_DOMAIN == <<"example.com">>

\* the one blueprint of the first revision
api_blueprint == "default"

\* docker_manager.render_env_file: the common assignments and the Medusa
\* ones; JWT_SECRET and COOKIE_SECRET are the literal text of the template
api_render_env_file(context) ==
    LET c == context
        host == c.TENANT_NAME \o <<".">> \o c["DOMAIN"]
        admin_host == <<"admin.">> \o c.TENANT_NAME \o <<".">> \o c["DOMAIN"] IN
    [k \in {"DOMAIN", "TENANT_NAME", "DB_HOST", "DB_PORT", "DB_NAME", "DB_USER",
            "DB_PASSWORD", "THEME", "DATABASE_URL", "REDIS_URL", "STORE_CORS",
            "ADMIN_CORS", "AUTH_CORS", "JWT_SECRET", "COOKIE_SECRET"} |->
        CASE k = "DOMAIN" -> c["DOMAIN"]
          [] k = "TENANT_NAME" -> c.TENANT_NAME
          [] k = "DB_HOST" -> c.DB_HOST
          [] k = "DB_PORT" -> c.DB_PORT
          [] k = "DB_NAME" -> c.DB_NAME
          [] k = "DB_USER" -> c.DB_USER
          [] k = "DB_PASSWORD" -> <<secret_text(c.DB_PASSWORD)>>
          [] k = "THEME" -> <<c.THEME>>
          [] k = "DATABASE_URL" -> db_url("postgres://", c)
          [] k = "REDIS_URL" -> <<"redis://redis-">> \o c.TENANT_NAME \o <<":6379">>
          [] k = "STORE_CORS" -> <<"http://">> \o host
          [] k = "ADMIN_CORS" -> <<"http://">> \o admin_host
          [] k = "AUTH_CORS" -> <<"http://">> \o admin_host \o <<",http://">> \o host
          [] k = "JWT_SECRET" -> <<"supersecret">>
          [] OTHER -> <<"supersecret">>]

\* the context start_tenant_containers builds: the credentials spread last
api_context(tenant_name, theme, db_credentials) ==
    ("DOMAIN" :> api_settings_DOMAIN)
        @@ [TENANT_NAME |-> tenant_name, THEME |-> theme,
            DB_HOST |-> db_credentials.DB_HOST, DB_PORT |-> db_credentials.DB_PORT,
            DB_NAME |-> db_credentials.DB_NAME, DB_USER |-> db_credentials.DB_USER,
            DB_PASSWORD |-> db_credentials.DB_PASSWORD]

\* copy_blueprint + render_env_file + generate_storefront_html +
\* generate_admin_html: the tenant directory start_tenant_containers leaves
api_materialise(tenant_name, theme, db_credentials) ==
    [blueprint |-> api_blueprint,
     compose_tenant |-> tenant_name,
     env |-> api_render_env_file(api_context(tenant_name, theme, db_credentials)),
     storefront |-> storefront_theme(theme),
     admin_html |-> TRUE,
     nginx_conf |-> FALSE,
     nginx_key |-> <<>>]

\* a POST /create-store body arrives; TenantCreate has two str fields and no
\* validator, so the handler runs with the name as sent
ApiCreateStoreRequest(s) ==
    /\ reqs[s].op = "idle"
    /\ ncreate < scope.max_creates
    /\ ncreate' = ncreate + 1
    /\ \E b \in scope.bodies :
          reqs' = [reqs EXCEPT ![s] =
                NewReq("api_create", b.raw, b.raw, b.theme, api_blueprint)]
    /\ UNCHANGED <<scope, infra, seeders, entropy, faults, last_creds, life>>

\* docker_manager.start_tenant_containers: synchronous, no await inside
ApiStartTenantContainers(s) ==
    LET r == reqs[s]
        n == r.tenant_name IN
    /\ At(r, "start_tenant_containers", "call")
    /\ IF api_blueprint \notin scope.blueprints
       THEN \* copy_blueprint raises FileNotFoundError
            /\ reqs' = [reqs EXCEPT ![s] = Raise(r, "Blueprint source directory not found")]
            /\ UNCHANGED <<tenant_dirs, containers, faults>>
       ELSE /\ tenant_dirs' = Put(tenant_dirs, n, api_materialise(n, r.theme, r.db_creds))
            /\ \E o \in subprocess_run(120) :
                  \/ /\ o = "CalledProcessError"
                     /\ Fault
                     /\ reqs' = [reqs EXCEPT ![s] =
                           Raise(Log(r, "docker compose up", n),
                                 "Failed to start Docker containers")]
                     /\ UNCHANGED containers
                  \/ /\ o = "TimeoutExpired"
                     /\ Fault
                     /\ reqs' = [reqs EXCEPT ![s] =
                           Raise(Log(r, "docker compose up", n), "docker compose up timed out")]
                     /\ \/ UNCHANGED containers
                        \/ \E h \in scope.health0 :
                              containers' = Put(containers, n, compose_up(r, h))
                  \/ /\ o = "returned"
                     /\ NoFault
                     /\ \E h \in scope.health0 :
                           containers' = Put(containers, n, compose_up(r, h))
                     /\ reqs' = [reqs EXCEPT ![s] = Advance(Log(r, "docker compose up", n))]
    /\ UNCHANGED <<scope, pg_database, pg_roles, tenants, seeders, entropy, ncreate,
                   last_creds, life>>

\* the body create_store of the first revision returns
api_create_response(r) ==
    [NoResp EXCEPT
        !.status_code = 200, !.status = "success",
        !.message = <<"Store '">> \o r.tenant_name \o <<"' creation complete.">>,
        !.storefront = r.tenant_name \o <<".">> \o api_settings_DOMAIN,
        !.admin = <<"admin.">> \o r.tenant_name \o <<".">> \o api_settings_DOMAIN]

ApiCreateStoreReturn(s) ==
    LET r == reqs[s] IN
    /\ r.op = "api_create"
    /\ At(r, "return", "call")
    /\ reqs' = [reqs EXCEPT ![s] =
            [Log(r, "return", r.tenant_name) EXCEPT
                !.sub = "done", !.resp = api_create_response(r)]]
    /\ UNCHANGED <<scope, infra, seeders, entropy, ncreate, faults, last_creds, life>>

\* two tenant names, each with two themes
ApiBodies == { [raw |-> n, theme |-> th] :
                   n \in { <<"a","-","b">>, <<"s","h","o","p">> },
                   th \in {"fashion", "minimal"} }

ApiInit ==
    /\ pg_database = EmptyMap
    /\ pg_roles = EmptyMap
    /\ tenants = EmptyMap
    /\ tenant_dirs = EmptyMap
    /\ containers = EmptyMap
    /\ reqs = [s \in SlotIds |-> Idle]
    /\ seeders = <<>>
    /\ entropy = 0
    /\ ncreate = 0
    /\ faults = 0
    /\ last_creds = EmptyMap
    /\ life = EmptyMap
    /\ scope = [bodies |-> ApiBodies, paths |-> {}, blueprints |-> {api_blueprint},
                health0 |-> {"starting"},
                max_creates |-> MaxCreates, max_faults |-> MaxFaults]

\* services/db.py of the first revision is not part of the sources: the
\* database provisioner of the control plane stands for it
ApiNext ==
    \/ \E s \in Slots : ApiCreateStoreRequest(s)
    \/ \E s \in Slots : ProvisionFetchval(s)
    \/ \E s \in Slots : ProvisionCreateRole(s)
    \/ \E s \in Slots : ProvisionCreateDatabase(s)
    \/ \E s \in Slots : ProvisionGrant(s)
    \/ \E s \in Slots : ProvisionAlterRole(s)
    \/ \E s \in Slots : ApiStartTenantContainers(s)
    \/ \E s \in Slots : ApiCreateStoreReturn(s)
    \/ \E s \in Slots : Respond(s)

ApiSpec == ApiInit /\ [][ApiNext]_vars

(***************************************************************************)
(* Two requests for one tenant on the event loop at once                   *)
(***************************************************************************)
RaceSlots == {1, 2}

\* a handler is inside code that holds no await: delete_tenant between its
\* command and its rmtree, create_store between the thread start and return
InSync(r) ==
    \/ At(r, "delete_tenant", "rmtree")
    \/ r.op = "create" /\ At(r, "return", "call")

\* handlers that wait for each other: a request does not run while another
\* request for the same tenant is in flight
Turn_per_tenant(s) ==
    \A t \in Slots \ {s} :
        ~(Running(reqs[t]) /\ Touches(reqs[s].tenant_name, reqs[t].tenant_name))

\* the event loop runs the handler of slot s: every other handler is at an
\* await; nothing else keeps two handlers for one tenant apart
Turn(s) == \A t \in Slots \ {s} : ~InSync(reqs[t])

\* what the event loop does next for the request in slot s
Resume(s) ==
    /\ Running(reqs[s])
    /\ Turn(s)
    /\ \/ ProvisionFetchval(s)
       \/ ProvisionCreateRole(s)
       \/ ProvisionCreateDatabase(s)
       \/ ProvisionGrant(s)
       \/ ProvisionAlterRole(s)
       \/ StartTenant(s)
       \/ RegisterTenant(s)
       \/ SeedThread(s)
       \/ CreateStoreReturn(s)
       \/ DeleteTenant(s)
       \/ DeleteTenantRmtree(s)
       \/ DeleteDbFetchval(s)
       \/ DeleteDbTerminate(s)
       \/ DeleteDbDropDatabase(s)
       \/ DeleteDbDropRole(s)
       \/ DeregisterTenant(s)
       \/ DeleteStoreReturn(s)

RaceBodies == { [raw |-> n, theme |-> "fashion", site_type |-> "ecommerce"] :
                    n \in SeedNames }

\* no statement and no command fails
RaceInit ==
    /\ pg_database = EmptyMap
    /\ pg_roles = EmptyMap
    /\ tenants = EmptyMap
    /\ tenant_dirs = EmptyMap
    /\ containers = EmptyMap
    /\ reqs = [s \in RaceSlots |-> Idle]
    /\ seeders = <<>>
    /\ entropy = 0
    /\ ncreate = 0
    /\ faults = 0
    /\ last_creds = EmptyMap
    /\ life = EmptyMap
    /\ scope = [bodies |-> RaceBodies, paths |-> SeedNames, blueprints |-> Blueprints,
                health0 |-> {"starting"},
                max_creates |-> MaxCreates, max_faults |-> 0]

\* each slot takes one request and keeps its answer
RaceNext ==
    \/ \E s \in Slots : Turn(s) /\ CreateStoreRequest(s)
    \/ \E s \in Slots : Turn(s) /\ ValidateCreate(s)
    \/ \E s \in Slots : Turn(s) /\ DeleteStoreRequest(s)
    \/ \E s \in Slots : Resume(s)

RaceSpec == RaceInit /\ [][RaceNext]_vars

(***************************************************************************)
(* POST /tenants/{tenant_name}/seed-admin                                  *)
(***************************************************************************)
\* a or b on an Optional[str]: None and the empty string both give b
py_or(a, b) == IF a.given /\ a.v # <<>> THEN a.v ELSE b
py_or_password(a, b) == IF a.given /\ a.v.length > 0 THEN a.v ELSE b

\* a handler that puts the default address in whatever the body says
seed_admin_email_default(tenant_name, body_email) == admin_email_of(tenant_name)

\* email = body.email or f"admin@{tenant_name}.com"
seed_admin_email(tenant_name, body_email) == py_or(body_email, admin_email_of(tenant_name))

\* password = body.password or secrets.token_urlsafe(14)
seed_admin_password(body_password, e) == py_or_password(body_password, token_urlsafe(14, e))

\* the bodies sent: each field absent, empty, or set
SeedAdminEmails == {NoneStr, [given |-> TRUE, v |-> <<>>], [given |-> TRUE, v |-> <<"root@x.io">>]}
SeedAdminPasswords ==
    {NonePassword,
     [given |-> TRUE, v |-> [kind |-> "sent", length |-> 0, draw |-> 0]],
     [given |-> TRUE, v |-> [kind |-> "sent", length |-> 8, draw |-> 0]]}

\* a POST /tenants/{tenant_name}/seed-admin arrives: the path name is not
\* validated, SeedAdminRequest has two optional fields
SeedAdminArrives(s) ==
    /\ reqs[s].op = "idle"
    /\ ncreate < scope.max_creates
    /\ ncreate' = ncreate + 1
    /\ \E n \in scope.paths, em \in SeedAdminEmails, pw \in SeedAdminPasswords :
          reqs' = [reqs EXCEPT ![s] =
                [NewReq("seed_admin", n, n, "", "") EXCEPT
                    !.body_email = em, !.body_password = pw]]
    /\ UNCHANGED <<scope, infra, seeders, entropy, faults, last_creds, life>>

\* seed_admin up to the call of seed_admin_user, which runs in the handler
SeedAdminUser(s) ==
    LET r == reqs[s]
        email == seed_admin_email(r.tenant_name, r.body_email)
        password == seed_admin_password(r.body_password, entropy + 1) IN
    /\ At(r, "seed_admin_user", "call")
    /\ entropy' = entropy + 1
    /\ seeders' = Append(seeders,
            [NewSeeder(r.tenant_name, "", email, password) EXCEPT
                !.pc = "health", !.caller = s])
    /\ reqs' = [reqs EXCEPT ![s] =
            [Log(r, "seed_admin_user", r.tenant_name) EXCEPT
                !.email = email, !.admin_password = password, !.sub = "wait"]]
    /\ UNCHANGED <<scope, infra, ncreate, faults, last_creds, life>>

\* the body seed_admin returns
seed_admin_response(r) ==
    [NoResp EXCEPT !.status_code = 200, !.status = "success",
        !.email = r.email, !.password = r.admin_password]

\* seed_admin_user has returned True or raised
SeedAdminReturn(s) ==
    LET r == reqs[s] IN
    /\ At(r, "seed_admin_user", "wait")
    /\ \E k \in DOMAIN seeders :
          LET t == seeders[k] IN
          /\ t.caller = s /\ t.pc = "done"
          /\ seeders' = [seeders EXCEPT ![k].pc = "joined"]
          /\ reqs' = [reqs EXCEPT ![s] =
                IF t.seeded
                THEN [Log(r, "return", r.tenant_name) EXCEPT
                        !.sub = "done", !.resp = seed_admin_response(r)]
                ELSE Raise(r, "seed_admin_user")]
    /\ UNCHANGED <<scope, infra, entropy, ncreate, faults, last_creds, life>>

\* the credentials and the request of the create that provisioned the tenant
AdminTenant == <<"a", "-", "b">>
AdminCreds ==
    [DB_HOST |-> settings_DB_HOST, DB_PORT |-> settings_DB_PORT,
     DB_NAME |-> db_name_of(AdminTenant), DB_USER |-> role_name_of(AdminTenant),
     DB_PASSWORD |-> generate_secure_password(1)]
AdminCreate ==
    [NewReq("create", AdminTenant, AdminTenant, "fashion", "ecommerce") EXCEPT
        !.db_creds = AdminCreds]

\* the control plane has started over one e-commerce tenant provisioned
\* before: its role, database, directory, containers and registry row are
\* there, no request is in flight and no thread runs; the identity of the
\* first seeding is there or not. One seed-admin request is taken
AdminInit ==
    /\ pg_roles = (role_name_of(AdminTenant) :> generate_secure_password(1))
    /\ \E users \in {EmptyMap, (admin_email_of(AdminTenant) :> generate_admin_password(4))} :
          pg_database = (db_name_of(AdminTenant) :>
                            [owner |-> role_name_of(AdminTenant),
                             acl |-> {role_name_of(AdminTenant)},
                             users |-> users, api_key |-> FALSE])
    /\ tenants = (AdminTenant :> tenant_row(AdminCreate))
    /\ tenant_dirs = (AdminTenant :> materialise(AdminTenant, "fashion", AdminCreds,
                                                 "ecommerce", 1))
    /\ \E h \in {"starting", "healthy", "none"} :
          containers = (AdminTenant :> compose_up(AdminCreate, h))
    /\ reqs = [s \in SlotIds |-> Idle]
    /\ seeders = <<>>
    /\ entropy = 4
    /\ ncreate = 0
    /\ faults = 0
    /\ last_creds = (AdminTenant :> AdminCreds)
    /\ life = EmptyMap
    /\ scope = [bodies |-> {}, paths |-> {AdminTenant, <<"s","h","o","p">>},
                blueprints |-> Blueprints, health0 |-> {"starting"},
                max_creates |-> 1, max_faults |-> MaxFaults]

\* the handler holds the event loop while seed_admin_user runs; the containers
\* go on by themselves
AdminNext ==
    \/ \E s \in Slots : SeedAdminArrives(s)
    \/ \E s \in Slots : SeedAdminUser(s)
    \/ \E k \in Threads : SeederProbe(k)
    \/ \E k \in Threads : SeederClear(k)
    \/ \E k \in Threads : SeederSeed(k)
    \/ \E s \in Slots : SeedAdminReturn(s)
    \/ \E s \in Slots : Respond(s)
    \/ HealthChange

AdminSpec == AdminInit /\ [][AdminNext]_vars


(***************************************************************************)
(* Properties                                                              *)
(***************************************************************************)
NameChars == LowerAlnum \cup {"-"}
UpperLetters == {UpperCase[i] : i \in 1..26}

\* a tenant name as the validation boundary describes the names to refuse
ClaimInvalid(raw) ==
    \/ Len(raw) < 3
    \/ Len(raw) > 30
    \/ \E i \in 1..Len(raw) : raw[i] \in UpperLetters
    \/ raw[1] = "-"
    \/ raw[Len(raw)] = "-"
    \/ \E i \in 1..Len(raw) : raw[i] \notin NameChars

\* the same boundary, without the upper-case clause
BoundaryInvalid(v) ==
    \/ Len(v) < 3
    \/ Len(v) > 30
    \/ v[1] = "-"
    \/ v[Len(v)] = "-"
    \/ \E i \in 1..Len(v) : v[i] \notin NameChars

\* a create request that has been received and not yet validated
Received(r) == r.op = "create" /\ r.sub = "received"

\* the request is answered with a validation error and nothing changes
RejectedUnchanged(s) ==
    /\ reqs'[s].sub = "done"
    /\ reqs'[s].resp.status_code = 422
    /\ reqs'[s].ev = <<>>
    /\ infra' = infra
    /\ seeders' = seeders

DDL == {"CREATE ROLE", "CREATE DATABASE", "GRANT", "ALTER ROLE", "DROP DATABASE", "DROP ROLE"}

\* the statements and commands that change a database, a role, a directory, a
\* compose project or the registry
SideEffects ==
    DDL \cup {"pg_terminate_backend", "docker compose down", "rmtree",
              "docker compose up", "INSERT INTO tenants"}

\* the allow-list pattern: 3-30 characters of [a-z0-9-], no hyphen first or last
AllowList(n) ==
    /\ Len(n) >= 3
    /\ Len(n) <= 30
    /\ \A i \in 1..Len(n) : n[i] \in NameChars
    /\ n[1] # "-"
    /\ n[Len(n)] # "-"

\* C2 as stated: in create and in delete, the tenant name has passed the
\* allow-list pattern before an identifier derived from it reaches a
\* CREATE/ALTER/DROP statement, and a delete request whose name does not match
\* is rejected before any side effect
C2_AllowListBeforeDDL ==
    \A s \in Slots :
        LET r == reqs[s] IN
        r.op \in {"create", "delete"} =>
            /\ (\E i \in 1..Len(r.ev) : r.ev[i].e \in DDL) => AllowList(r.tenant_name)
            /\ r.op = "delete" /\ ~AllowList(r.tenant_name) =>
                    \A i \in 1..Len(r.ev) : r.ev[i].e \notin SideEffects

\* provision_tenant_db returns to create_store in this step
ProvisionReturns(s) ==
    /\ At(reqs[s], "provision_tenant_db", reqs[s].sub)
    /\ reqs'[s].op = "create"
    /\ reqs'[s].ip = reqs[s].ip + 1

\* C3: for a valid tenant name, a successful provision_tenant_db call that
\* follows an earlier successful one returns the same db_name and db_user, and
\* both passwords are non-empty and differ
C3_IdempotentCreate ==
    [][\A s \in Slots :
          ProvisionReturns(s) /\ reqs[s].tenant_name \in DOMAIN last_creds =>
              LET first == last_creds[reqs[s].tenant_name]
                  second == reqs'[s].db_creds IN
              /\ AllowList(reqs[s].tenant_name)
              /\ second.DB_NAME = first.DB_NAME
              /\ second.DB_USER = first.DB_USER
              /\ first.DB_PASSWORD.length > 0
              /\ second.DB_PASSWORD.length > 0
              /\ second.DB_PASSWORD # first.DB_PASSWORD
              /\ last_creds'[reqs[s].tenant_name] = second]_vars

\* C3 witness: a second call found the database of a registered tenant and
\* returned credentials that differ from the first call's only in the password
C3_Witness ==
    \E s \in Slots :
        LET r == reqs[s] IN
        /\ r.op = "create"
        /\ r.ip = 2
        /\ r.db_exists
        /\ r.tenant_name \in DOMAIN tenants
        /\ r.db_creds.DB_NAME = tenants[r.tenant_name].db_name
        /\ r.db_creds.DB_PASSWORD.draw > 1
        /\ pg_roles[r.db_creds.DB_USER] = r.db_creds.DB_PASSWORD

\* the tenant name with every "-" replaced by "_"
Underscored(n) == [i \in 1..Len(n) |-> IF n[i] = "-" THEN "_" ELSE n[i]]

\* the host of a reported URL: what stands between the scheme and the path
url_host(url) ==
    LET rest == IF Len(url) > 0 /\ url[1] = "http://" THEN Tail(url) ELSE url IN
    IF Len(rest) > 0 /\ rest[Len(rest)] = "/app" THEN SubSeq(rest, 1, Len(rest) - 1) ELSE rest

\* a create request that has been answered with success
CreateSucceeded(r) == r.op = "create" /\ r.sub = "done" /\ r.resp.status_code = 200

\* C4: a successful create of a valid tenant name n yields db_name = "db_" + n
\* with every "-" replaced by "_" and db_user = "user_" + the same string,
\* leaves a registry row for n with status running, and reports the
\* subdomains n.<domain> and admin.n.<domain>
C4_CreateResults ==
    \A s \in Slots :
        LET r == reqs[s]
            n == r.tenant_name IN
        CreateSucceeded(r) =>
            /\ AllowList(n)
            /\ r.db_creds.DB_NAME = <<"db_">> \o Underscored(n)
            /\ r.db_creds.DB_USER = <<"user_">> \o Underscored(n)
            /\ n \in DOMAIN tenants
            /\ tenants[n].status = "running"
            /\ tenants[n].db_name = <<"db_">> \o Underscored(n)
            /\ tenants[n].db_user = <<"user_">> \o Underscored(n)
            /\ url_host(r.resp.storefront) = n \o <<".">> \o settings_DOMAIN
            /\ url_host(r.resp.admin) = <<"admin.">> \o n \o <<".">> \o settings_DOMAIN

\* C4 witness: a create of a hyphenated name has been answered with success
C4_Witness ==
    \E s \in Slots :
        /\ CreateSucceeded(reqs[s])
        /\ \E i \in 1..Len(reqs[s].tenant_name) : reqs[s].tenant_name[i] = "-"
        /\ reqs[s].db_creds.DB_NAME \in DOMAIN pg_database

\* a delete request that has been answered
DeleteAnswered(r) == r.op = "delete" /\ r.sub = "done"

\* the request ran into an exception
Raised(r) == \E i \in 1..Len(r.ev) : r.ev[i].e = "raise"

\* C6 as stated: deleting a tenant that was never provisioned (no database, no
\* working directory, no registry row) completes without error and reports
\* "not found", a result distinguishable from that of removing an existing tenant
C6_NotFoundReported ==
    \A s \in Slots :
        LET r == reqs[s] IN
        DeleteAnswered(r) /\ ~r.found /\ ~Raised(r) =>
            /\ r.resp.status_code = 200
            /\ r.resp.status = "not found"
            /\ r.resp.status # "success"

\* every event of kind `after` in ev has an event of kind `before` ahead of it
Precedes(ev, before, after) ==
    \A i \in 1..Len(ev) :
        ev[i].e \in after => \E j \in 1..(i - 1) : ev[j].e \in before

\* the statements delete_tenant_db issues
DropStatements == {"SELECT pg_database", "pg_terminate_backend", "DROP DATABASE", "DROP ROLE"}

\* C7: in every delete, compute teardown has been attempted and has returned
\* before the database drop is attempted, the registry row is removed only
\* after the database drop has returned, and when the drop starts the tenant's
\* containers and directory are gone
C7_DeleteOrder ==
    \A s \in Slots :
        LET r == reqs[s] IN
        r.op = "delete" =>
            /\ Precedes(r.ev, {"delete_tenant"}, DropStatements)
            /\ Precedes(r.ev, {"delete_tenant_db"}, {"DELETE FROM tenants"})
            /\ Precedes(r.ev, DropStatements, {"delete_tenant_db"})
            /\ (\E i \in 1..Len(r.ev) : r.ev[i].e \in DropStatements) =>
                    /\ r.tenant_name \notin DOMAIN containers
                    /\ r.tenant_name \notin DOMAIN tenant_dirs
            /\ (\E i \in 1..Len(r.ev) : r.ev[i].e = "DELETE FROM tenants") =>
                    db_name_of(r.tenant_name) \notin DOMAIN pg_database

\* C7 witness: a delete of a tenant that had containers and a database took the
\* containers down, dropped the database and the role, and removed the row
C7_Witness ==
    \E s \in Slots :
        LET r == reqs[s] IN
        /\ DeleteAnswered(r)
        /\ r.found
        /\ \E i, j, k \in 1..Len(r.ev) :
              /\ r.ev[i].e = "docker compose down"
              /\ r.ev[j].e = "DROP DATABASE"
              /\ r.ev[k].e = "DELETE FROM tenants"

\* C8: in every create, database provisioning has succeeded before compute
\* start begins, the registry row (status running) is written only after both
\* have succeeded, the seeder is dispatched only after the row is written, and
\* the success response is produced only after the dispatch
C8_CreateOrder ==
    \A s \in Slots :
        LET r == reqs[s]
            n == r.tenant_name IN
        r.op = "create" =>
            /\ Precedes(r.ev, {"GRANT", "ALTER ROLE"}, {"docker compose up"})
            /\ Precedes(r.ev, {"docker compose up"}, {"INSERT INTO tenants"})
            /\ Precedes(r.ev, {"INSERT INTO tenants"}, {"thread start"})
            /\ Precedes(r.ev, {"thread start"}, {"return"})
            /\ (\E i \in 1..Len(r.ev) : r.ev[i].e = "docker compose up") =>
                    /\ r.db_creds.DB_NAME \in DOMAIN pg_database
                    /\ r.db_creds.DB_USER \in DOMAIN pg_roles
                    /\ pg_roles[r.db_creds.DB_USER] = r.db_creds.DB_PASSWORD
            /\ (\E i \in 1..Len(r.ev) : r.ev[i].e = "INSERT INTO tenants") =>
                    /\ n \in DOMAIN containers
                    /\ containers[n].status = "running"
                    /\ n \in DOMAIN tenants
                    /\ tenants[n].status = "running"
            /\ r.resp.status_code = 200 =>
                    /\ r.ev[Len(r.ev)].e = "return"
                    /\ \E k \in DOMAIN seeders : seeders[k].tenant_name = n

\* C8 witness: a create went through provisioning, compute start, the registry
\* write and the dispatch of the seeder, and was answered with success
C8_Witness ==
    \E s \in Slots :
        LET r == reqs[s] IN
        /\ CreateSucceeded(r)
        /\ Len(r.ev) >= 5
        /\ r.tenant_name \in DOMAIN tenants
        /\ seeders # <<>>

\* a suspend or resume request that has been answered with success
ToggleSucceeded(r, op) == r.op = op /\ r.sub = "done" /\ r.resp.status_code = 200

\* C9 as stated: after a successful suspend of a registered tenant its
\* registry status is suspended, and after a successful resume it is running;
\* the registry status equals the outcome of the last successful
\* create/suspend/resume for the tenant
C9_RegistryFollowsToggle ==
    \A s \in Slots :
        LET r == reqs[s]
            n == r.tenant_name IN
        n \in DOMAIN tenants =>
            /\ ToggleSucceeded(r, "suspend") => tenants[n].status = "suspended"
            /\ ToggleSucceeded(r, "resume") => tenants[n].status = "running"
            /\ CreateSucceeded(r) => tenants[n].status = "running"

\* the commands a request has run
Commands(r) == {r.ev[i].e : i \in 1..Len(r.ev)} \ {"return", "raise"}

\* C10: a successful suspend of a running tenant runs only the stop command
\* and leaves the databases, the roles and the working directories unchanged;
\* a successful resume of the stopped tenant runs only the start command,
\* provisions nothing, rotates no password, materialises no blueprint and
\* brings the containers back to running
C10_ToggleFrame ==
    [][\A s \in Slots :
          LET r == reqs'[s]
              n == r.tenant_name IN
          /\ reqs[s].op = "idle" /\ ToggleSucceeded(r, "suspend") /\ r.pre = "running" =>
                /\ Commands(r) = {"docker compose stop"}
                /\ containers'[n].status = "exited"
                /\ <<pg_database, pg_roles, tenant_dirs, tenants, entropy>>' =
                        <<pg_database, pg_roles, tenant_dirs, tenants, entropy>>
          /\ reqs[s].op = "idle" /\ ToggleSucceeded(r, "resume") /\ r.pre = "exited" =>
                /\ Commands(r) = {"docker compose start"}
                /\ containers' = [containers EXCEPT ![n].status = "running"]
                /\ <<pg_database, pg_roles, tenant_dirs, tenants, entropy>>' =
                        <<pg_database, pg_roles, tenant_dirs, tenants, entropy>>]_vars

\* C10 witness: a suspended tenant has been resumed and runs, its database,
\* role and directory in place
C10_Witness ==
    \E s \in Slots :
        LET r == reqs[s]
            n == r.tenant_name IN
        /\ ToggleSucceeded(r, "resume")
        /\ r.pre = "exited"
        /\ containers[n].status = "running"
        /\ n \in DOMAIN tenant_dirs
        /\ db_name_of(n) \in DOMAIN pg_database
        /\ role_name_of(n) \in DOMAIN pg_roles

\* no database, no role, no working directory and no registry row for n
NothingLeft(n) ==
    /\ db_name_of(n) \notin DOMAIN pg_database
    /\ role_name_of(n) \notin DOMAIN pg_roles
    /\ n \notin DOMAIN tenant_dirs
    /\ n \notin DOMAIN tenants

\* C5 as stated: once a create of a valid tenant has succeeded and a delete of
\* the same tenant has then completed successfully, the tenant has no
\* database, no role, no working directory and no registry row, in that state
\* and in every later one, while and after the seeder dispatched by the
\* create runs
C5_RoundTripLeavesNothing ==
    \A n \in DOMAIN life : life[n] = "deleted" => NothingLeft(n)

\* the step in which start_tenant runs for slot s and fails: the blueprint is
\* missing, or docker compose up fails or is killed at its timeout
ComputeStartFails(s) ==
    /\ At(reqs[s], "start_tenant", "call")
    /\ reqs' # reqs
    /\ reqs[s].site_type \notin scope.blueprints \/ faults' # faults

\* C11: when database provisioning has succeeded and compute start then fails
\* during create, the caller receives an error, the database and the role stay
\* provisioned, no registry row is written, no seeder is dispatched and no
\* compensating drop is performed
C11_ComputeFailureLeavesDatabase ==
    [][\A s \in Slots :
          ComputeStartFails(s) =>
              LET r == reqs'[s] IN
              /\ r.sub = "done"
              /\ r.resp.status_code = 500
              /\ r.db_creds.DB_NAME \in DOMAIN pg_database'
              /\ r.db_creds.DB_USER \in DOMAIN pg_roles'
              /\ pg_roles'[r.db_creds.DB_USER] = r.db_creds.DB_PASSWORD
              /\ pg_database' = pg_database
              /\ pg_roles' = pg_roles
              /\ tenants' = tenants
              /\ seeders' = seeders
              /\ \A i \in 1..Len(r.ev) :
                    r.ev[i].e \notin {"DROP DATABASE", "DROP ROLE", "INSERT INTO tenants",
                                      "thread start"}]_vars

\* C11 witness: a create of a tenant that was never registered was answered
\* with the compose failure, and its database and role are there
C11_Witness ==
    \E s \in Slots :
        LET r == reqs[s] IN
        /\ r.op = "create"
        /\ r.sub = "done"
        /\ r.resp.status_code = 500
        /\ r.resp.message = <<"Failed to start Docker containers">>
        /\ r.db_creds.DB_NAME \in DOMAIN pg_database
        /\ r.db_creds.DB_USER \in DOMAIN pg_roles
        /\ r.tenant_name \notin DOMAIN tenants
        /\ seeders = <<>>

\* a seeder thread that ended without having done all of its work: the health
\* deadline passed, the seed command failed, or key polling ran out
SeederFailed(t) ==
    /\ t.pc = "done"
    /\ \/ t.log = "auto_seed_failed"
       \/ t.log = "auto_seed_complete" /\ ~t.injected

\* a step of seeder thread k
SeederStep(k) == k \in DOMAIN seeders /\ seeders'[k] # seeders[k]

\* the tenant directory without the injected nginx configuration
DirWithoutConf(d) == [blueprint |-> d.blueprint, compose_tenant |-> d.compose_tenant,
                      env |-> d.env, storefront |-> d.storefront]

\* C12: the create response neither waits for nor depends on the seeder:
\* create returns success once the row is written and the seeder dispatched,
\* wherever the seeder is; no step of a seeder changes a response, the
\* registry, the set of databases, roles or directories, or what start_tenant
\* put into the directory; and the step in which a seeder fails (health
\* deadline, seed command, key polling timeout) changes nothing but its log
C12_SeederIndependence ==
    [][/\ \A s \in Slots :
             At(reqs[s], "return", "call") /\ reqs[s].op = "create" /\ reqs'[s] # reqs[s] =>
                /\ reqs'[s].resp.status_code = 200
                /\ reqs[s].tenant_name \in DOMAIN tenants
                /\ \E k \in DOMAIN seeders : seeders[k].tenant_name = reqs[s].tenant_name
       /\ \A k \in DOMAIN seeders :
             SeederStep(k) =>
                /\ reqs' = reqs
                /\ tenants' = tenants
                /\ pg_roles' = pg_roles
                /\ DOMAIN pg_database' = DOMAIN pg_database
                /\ DOMAIN tenant_dirs' = DOMAIN tenant_dirs
                /\ \A n \in DOMAIN tenant_dirs :
                      DirWithoutConf(tenant_dirs'[n]) = DirWithoutConf(tenant_dirs[n])
                /\ SeederFailed(seeders'[k]) =>
                      /\ pg_database' = pg_database
                      /\ tenant_dirs' = tenant_dirs
                      /\ containers' = containers]_vars

\* C12 witness: the create has been answered with success and its row is
\* written, while the seeder it dispatched has failed
C12_Witness ==
    \E s \in Slots, k \in DOMAIN seeders :
        /\ CreateSucceeded(reqs[s])
        /\ seeders[k].tenant_name = reqs[s].tenant_name
        /\ SeederFailed(seeders[k])
        /\ reqs[s].tenant_name \in DOMAIN tenants
        /\ reqs[s].db_creds.DB_NAME \in DOMAIN pg_database
        /\ reqs[s].tenant_name \in DOMAIN tenant_dirs

\* C12 witness of the response not waiting is the same run one step earlier:
\* the thread has not begun when the response is produced
C12_NotWaiting ==
    \E s \in Slots, k \in DOMAIN seeders :
        /\ CreateSucceeded(reqs[s])
        /\ seeders[k].tenant_name = reqs[s].tenant_name
        /\ seeders[k].pc = "start"

\* what is stored under key k, if anything
Look(f, k) == IF k \in DOMAIN f THEN <<f[k]>> ELSE <<>>

\* the database, role, working directory and registry row of tenant m
Belongings(m) ==
    [database |-> Look(pg_database, db_name_of(m)),
     role |-> Look(pg_roles, role_name_of(m)),
     dir |-> Look(tenant_dirs, m),
     row |-> Look(tenants, m)]

\* C13 as stated: for two distinct tenant names n and m, no step of a request
\* invoked with name n creates, modifies or removes the database, the role,
\* the working directory or the registry row of the registered tenant m
C13_Isolation ==
    [][\A s \in Slots : \A m \in DOMAIN tenants :
          Running(reqs'[s]) /\ reqs'[s].tenant_name # m =>
              Belongings(m)' = Belongings(m)]_vars

\* C14 as stated, read at the states in which no request is being served (the
\* states that failed or partially completed create and delete calls leave):
\* whenever the registry holds a row for a tenant with status running or
\* suspended, that tenant's database and its working directory both exist
C14_RowImpliesResources ==
    (\A s \in Slots : ~Running(reqs[s])) =>
        \A n \in DOMAIN tenants :
            tenants[n].status \in {"running", "suspended"} =>
                /\ db_name_of(n) \in DOMAIN pg_database
                /\ n \in DOMAIN tenant_dirs

\* C15 as stated: whatever failed or partially completed create and delete
\* calls came before, a delete call for a tenant that completes without error
\* leaves the tenant fully absent: no database, no role, no working directory
\* and no registry row
C15_SuccessfulDeleteLeavesNothing ==
    \A s \in Slots :
        DeleteAnswered(reqs[s]) /\ reqs[s].resp.status_code = 200 =>
            NothingLeft(reqs[s].tenant_name)

\* the request has been answered with a success or an error response
Answered(r) == r.sub = "done" /\ r.resp.status_code \in {200, 422, 500}

\* the messages with which an expired timeout is reported
TimeoutMessages == { <<"docker compose up timed out">>, <<timed_out_after(60)>> }

\* C16: every create, delete, suspend and resume request ends with a success
\* or an error response even when an external command hangs: each child
\* process is run with a timeout, no handler is ever left waiting, and a
\* timeout that expired is answered with an error
C16_RequestsTerminate ==
    /\ \A s \in SlotIds : (reqs[s].op # "idle") ~> Answered(reqs[s])
    /\ [](\A s \in SlotIds :
            /\ reqs[s].sub # "blocked"
            /\ reqs[s].sub = "done" /\ reqs[s].resp.message \in TimeoutMessages =>
                  reqs[s].resp.status_code = 500)

\* C16 witness: a delete whose docker compose down timed out has been answered
\* with an error
C16_Witness ==
    \E s \in Slots :
        /\ reqs[s].op = "delete"
        /\ Answered(reqs[s])
        /\ reqs[s].resp.status_code = 500
        /\ reqs[s].resp.message = <<timed_out_after(60)>>

\* the errors a statement of provision_tenant_db answers with while the
\* cluster is healthy
StatementRefused ==
    { <<"role already exists">>, <<"cannot create database">>, <<"cannot grant">>,
      <<"role does not exist">> }

\* C17 as stated: after an earlier provisioning or drop for the same name has
\* failed part-way, provision_tenant_db run with the cluster healthy succeeds:
\* no create ends with a statement refused by a healthy cluster
C17_RetrySucceeds ==
    \A s \in Slots :
        reqs[s].op = "create" /\ reqs[s].sub = "done" =>
            reqs[s].resp.message \notin StatementRefused

\* C18: when the tenant's database already exists, provision_tenant_db takes
\* the ALTER ROLE branch, which does not fail on a healthy cluster, creates no
\* database and no role and changes nothing but the password of the tenant's
\* role; and whenever provision_tenant_db returns, the role's stored password
\* is the password it returns
C18_ExistingDatabase ==
    [][\A s \in Slots :
          LET r == reqs[s]
              role_name == role_name_of(r.tenant_name) IN
          /\ At(r, "provision_tenant_db", "fetchval") /\ faults' = faults
                /\ sql_db_exists(db_name_of(r.tenant_name)) =>
                   reqs'[s].sub = "alter_role"
          /\ At(r, "provision_tenant_db", "alter_role") /\ faults' = faults =>
                /\ ProvisionReturns(s)
                /\ ~Raised(reqs'[s])
                /\ pg_database' = pg_database
                /\ DOMAIN pg_roles' = DOMAIN pg_roles
                /\ \A o \in DOMAIN pg_roles \ {role_name} : pg_roles'[o] = pg_roles[o]
                /\ reqs'[s].db_creds.DB_USER = role_name
          /\ ProvisionReturns(s) =>
                /\ reqs'[s].db_creds.DB_USER \in DOMAIN pg_roles'
                /\ pg_roles'[reqs'[s].db_creds.DB_USER] = reqs'[s].db_creds.DB_PASSWORD
                /\ reqs'[s].db_creds.DB_PASSWORD # NoSecret]_vars

\* C18 witness: provision_tenant_db has returned for a tenant whose database
\* existed, the password of the role was replaced by the returned one, and
\* there is still one database and one role
C18_Witness ==
    \E s \in Slots :
        LET r == reqs[s] IN
        /\ r.op = "create" /\ r.db_exists /\ r.ip > 1
        /\ r.db_creds.DB_USER \in DOMAIN pg_roles
        /\ pg_roles[r.db_creds.DB_USER] = r.db_creds.DB_PASSWORD
        /\ r.db_creds.DB_PASSWORD.draw > 1
        /\ Cardinality(DOMAIN pg_database) = 1
        /\ Cardinality(DOMAIN pg_roles) = 1

\* the events of kind e in ev
Has(ev, e) == \E i \in 1..Len(ev) : ev[i].e = e

\* C19: when the database exists, delete_tenant_db terminates the connections
\* to it, then drops the database, then drops the role: no DROP DATABASE
\* without the connections terminated before it, no DROP ROLE without the
\* database dropped before it, a call that returns has issued all three, DROP
\* ROLE is only reached once the database is gone, and no database is ever
\* left without its owning role
C19_DropOrder ==
    /\ \A s \in Slots :
          LET r == reqs[s] IN
          r.op = "delete" =>
              /\ Precedes(r.ev, {"pg_terminate_backend"}, {"DROP DATABASE"})
              /\ Precedes(r.ev, {"DROP DATABASE"}, {"DROP ROLE"})
              /\ r.db_exists /\ Has(r.ev, "delete_tenant_db") =>
                    /\ Has(r.ev, "pg_terminate_backend")
                    /\ Has(r.ev, "DROP DATABASE")
                    /\ Has(r.ev, "DROP ROLE")
              /\ At(r, "delete_tenant_db", "drop_role") =>
                    db_name_of(r.tenant_name) \notin DOMAIN pg_database
    /\ \A d \in DOMAIN pg_database : pg_database[d].owner \in DOMAIN pg_roles

\* C19 witness: delete_tenant_db found the database, issued the three
\* statements and returned, and the database and the role are gone
C19_Witness ==
    \E s \in Slots :
        LET r == reqs[s] IN
        /\ r.op = "delete" /\ r.db_exists
        /\ Has(r.ev, "pg_terminate_backend") /\ Has(r.ev, "DROP DATABASE")
        /\ Has(r.ev, "DROP ROLE") /\ Has(r.ev, "delete_tenant_db")
        /\ db_name_of(r.tenant_name) \notin DOMAIN pg_database
        /\ role_name_of(r.tenant_name) \notin DOMAIN pg_roles

\* C20 as stated: delete_tenant_db returns false, without error and without
\* issuing any drop statement, when the tenant's database does not exist, and
\* returns true only when it dropped the database
C20_DropReturnValue ==
    \A s \in Slots :
        LET r == reqs[s] IN
        r.op = "delete" /\ Has(r.ev, "delete_tenant_db") =>
            /\ ~r.db_exists =>
                  /\ r.db_ret = FALSE
                  /\ ~Has(r.ev, "DROP DATABASE") /\ ~Has(r.ev, "DROP ROLE")
            /\ r.db_ret = TRUE => Has(r.ev, "DROP DATABASE")

\* C21: delete_tenant returns false, without error and without running docker
\* compose down, when the tenant's working directory does not exist; a
\* directory is removed only by a delete whose docker compose down has
\* succeeded; and a tear-down that fails or is killed at its timeout leaves the
\* directory in place
C21_DeleteTenant ==
    [][/\ \A s \in Slots :
             LET r == reqs[s]
                 n == r.tenant_name IN
             At(r, "delete_tenant", "call") /\ reqs'[s] # r =>
                /\ n \notin DOMAIN tenant_dirs =>
                      /\ reqs'[s].ret = FALSE
                      /\ reqs'[s].resp.status_code # 500
                      /\ ~Has(reqs'[s].ev, "docker compose down")
                      /\ Has(reqs'[s].ev, "delete_tenant")
                      /\ infra' = infra
                /\ n \in DOMAIN tenant_dirs /\ faults' # faults =>
                      /\ tenant_dirs' = tenant_dirs
                      /\ reqs'[s].resp.status_code = 500
       /\ \A n \in DOMAIN tenant_dirs :
             n \notin DOMAIN tenant_dirs' =>
                \E s \in Slots :
                    /\ At(reqs[s], "delete_tenant", "rmtree")
                    /\ reqs[s].tenant_name = n
                    /\ reqs[s].ev[Len(reqs[s].ev)] = Event("docker compose down", n)
                    /\ n \notin DOMAIN containers
                    /\ reqs'[s].ret = TRUE]_vars

\* C21 witness: one delete found no directory and returned false without a
\* tear-down
C21_Witness ==
    \E s \in Slots :
        LET r == reqs[s] IN
        /\ r.op = "delete" /\ r.ret = FALSE /\ r.ip > 1
        /\ ~Has(r.ev, "docker compose down")
        /\ ~Raised(r)

\* C21 witness of the other case: a delete removed the directory after its
\* tear-down
C21_Removed ==
    \E s \in Slots :
        LET r == reqs[s] IN
        /\ r.op = "delete" /\ r.ret = TRUE /\ r.found
        /\ Has(r.ev, "docker compose down") /\ Has(r.ev, "rmtree")
        /\ r.tenant_name \notin DOMAIN tenant_dirs

\* the statuses with which the health loop lets the seeder go on
GoAhead == {"healthy", "", "none"}

\* C22: the health loop makes at most 30 probes, each one that does not end the
\* loop followed by one sleep; when the 30th probe has not ended the loop the
\* thread fails for good, having run neither the identity reset nor the
\* admin-creation command, and it never runs again; the reset and the
\* admin-creation command are reached only from a probe that read healthy or
\* no health status
C22_HealthDeadline ==
    [][\A k \in DOMAIN seeders :
          LET t == seeders[k]
              u == seeders'[k] IN
          /\ u.probes <= HEALTH_ATTEMPTS
          /\ t.pc = "health" /\ u # t =>
                /\ u.probes = t.probes + 1
                /\ u.pc \in {"health", "clear", "done"}
                /\ u.pc = "health" => u.sleeps = t.sleeps + 1
                /\ u.pc = "clear" => /\ docker_inspect_health(t.tenant_name) \in GoAhead
                                     /\ faults' = faults
                /\ u.pc = "done" =>
                      /\ u.probes = HEALTH_ATTEMPTS
                      /\ u.sleeps = HEALTH_ATTEMPTS
                      /\ u.log = "auto_seed_failed"
                      /\ ~u.seeded
                      /\ pg_database' = pg_database
          /\ u.pc = "clear" /\ t.pc # "clear" => t.pc = "health"
          /\ u.pc = "seed" /\ t.pc # "seed" => t.pc = "clear"
          /\ t.pc = "done" => u = t]_vars

\* C22 witness: thirty probes saw the container starting or unhealthy, and
\* the thread ended in failure without seeding
C22_Witness ==
    \E k \in DOMAIN seeders :
        /\ seeders[k].pc = "done"
        /\ seeders[k].probes = HEALTH_ATTEMPTS
        /\ seeders[k].sleeps = HEALTH_ATTEMPTS
        /\ seeders[k].log = "auto_seed_failed"
        /\ ~seeders[k].seeded

\* C23: when a probe reports that the container has no health status, the
\* seeder sleeps once and goes on to seeding; once the health loop is left no
\* further probe is made and no further interval is waited
C23_GraceInterval ==
    [][\A k \in DOMAIN seeders :
          LET t == seeders[k]
              u == seeders'[k] IN
          /\ t.pc = "health" /\ u # t /\ faults' = faults
                /\ docker_inspect_health(t.tenant_name) \in {"", "none"} =>
                   /\ u.pc = "clear"
                   /\ u.probes = t.probes + 1
                   /\ u.sleeps = t.sleeps + 1
          /\ t.pc \notin {"start", "health"} =>
                /\ u.probes = t.probes
                /\ u.sleeps = t.sleeps
                /\ u.pc \notin {"start", "health"}]_vars

\* C23 witness: the only probe found no health status, one interval was
\* waited, and the administrator was then seeded
C23_Witness ==
    \E k \in DOMAIN seeders :
        /\ seeders[k].seeded
        /\ seeders[k].probes = 1
        /\ seeders[k].sleeps = 1

\* C24 as stated: the seeder dispatched by a successful create polls health and
\* creates the administrator identity whatever the site type is; only the
\* publishable-key step is kept to e-commerce tenants
C24_SeedsEverySiteType ==
    \A k \in DOMAIN seeders :
        LET t == seeders[k] IN
        t.pc = "done" =>
            /\ t.probes >= 1
            /\ t.log # "auto_seed_skipped"
            /\ t.site_type # "ecommerce" => ~t.injected /\ t.token = <<>>

\* C25 as stated: for every valid tenant name, names with hyphens included,
\* the reset step of the seeder addresses the tenant's own database, the one
\* whose name provision_tenant_db returned for that tenant
C25_ResetOwnDatabase ==
    \A k \in DOMAIN seeders :
        LET t == seeders[k] IN
        t.reset_db # <<>> =>
            /\ t.tenant_name \in DOMAIN last_creds
            /\ t.reset_db = last_creds[t.tenant_name].DB_NAME

\* the steps of fetch_and_inject_publishable_key
KeySteps == {"key_poll", "conf_exists", "conf_read", "conf_write", "reload"}

files_of(d) ==
    {"docker-compose.yml", ".env", "storefront.html"}
        \cup (IF blueprint_has_nginx_template(d.blueprint)
              THEN {"storefront-nginx.conf.template"} ELSE {})
        \cup (IF d.nginx_conf THEN {"storefront-nginx.conf"} ELSE {})

\* the files start_tenant leaves for a site type: the blueprint's and the
\* generated ones
files_for(site_type) ==
    {"docker-compose.yml", ".env", "storefront.html"}
        \cup (IF blueprint_has_nginx_template(site_type)
              THEN {"storefront-nginx.conf.template", "storefront-nginx.conf"} ELSE {})

\* C27: after start_tenant has materialised the blueprint, the tenant directory
\* holds the files of the requested site type's blueprint and the files
\* generated by this call and nothing of the directory that was there before
\* (no edge configuration of another blueprint, no injected key, no earlier
\* theme or environment key); and a second materialisation of the same site
\* type leaves the same set of files
C27_Materialise ==
    [][\A s \in Slots :
          LET r == reqs[s]
              n == r.tenant_name IN
          At(r, "start_tenant", "call") /\ tenant_dirs' # tenant_dirs =>
             LET d == tenant_dirs'[n] IN
             /\ files_of(d) = files_for(r.site_type)
             /\ d.blueprint = r.site_type
             /\ d.compose_tenant = n
             /\ d.nginx_key = <<>>
             /\ d.storefront = storefront_theme(r.theme)
             /\ d.env.THEME = <<r.theme>>
             /\ d.env.DB_PASSWORD = <<secret_text(r.db_creds.DB_PASSWORD)>>
             /\ ("JWT_SECRET" \in DOMAIN d.env) = (r.site_type = "ecommerce")
             /\ ("url" \in DOMAIN d.env) = (r.site_type = "blog")
             /\ n \in DOMAIN tenant_dirs /\ tenant_dirs[n].blueprint = r.site_type =>
                   files_of(d) = files_of(tenant_dirs[n])]_vars

\* C27 witness: a tenant created as an e-commerce site was created again as a
\* blog, and its directory holds the blog blueprint without the e-commerce
\* edge configuration
C27_Witness ==
    \E s \in Slots :
        LET r == reqs[s]
            n == r.tenant_name IN
        /\ r.op = "create" /\ r.site_type = "blog"
        /\ Has(r.ev, "docker compose up")
        /\ n \in DOMAIN tenants /\ tenants[n].site_type = "ecommerce"
        /\ n \in DOMAIN tenant_dirs
        /\ tenant_dirs[n].blueprint = "blog" /\ ~tenant_dirs[n].nginx_conf


\* C28: when the requested site type has no blueprint, start_tenant raises
\* "Blueprint source directory not found" and leaves the tenant directories,
\* the containers and the secrets drawn as they were; the create then answers
\* 500 and neither a registry row nor a seeder comes from it
C28_MissingBlueprint ==
    [][\A s \in Slots :
          LET r == reqs[s]
              u == reqs'[s] IN
          /\ At(r, "start_tenant", "call") /\ r.site_type \notin scope.blueprints /\ u # r =>
                /\ u.ev[Len(u.ev)] = Event("raise", <<"Blueprint source directory not found">>)
                /\ ~Has(u.ev, "docker compose up")
                /\ tenant_dirs' = tenant_dirs
                /\ containers' = containers
                /\ entropy' = entropy
                /\ u.resp.status_code = 500
          /\ r.op = "create" /\ r.site_type \notin scope.blueprints /\ u # r =>
                /\ tenants' = tenants
                /\ seeders' = seeders]_vars

\* C28 witness: a create for a site type without a blueprint has failed in
\* start_tenant while the tenant's directory of an earlier create is in place
C28_Witness ==
    \E s \in Slots :
        LET r == reqs[s]
            n == r.tenant_name IN
        /\ r.op = "create" /\ r.site_type \notin scope.blueprints
        /\ Len(r.ev) > 0
        /\ r.ev[Len(r.ev)] = Event("raise", <<"Blueprint source directory not found">>)
        /\ r.resp.status_code = 500
        /\ n \in DOMAIN tenant_dirs /\ tenant_dirs[n].blueprint = "ecommerce"
        /\ n \in DOMAIN containers
        /\ n \in DOMAIN tenants /\ tenants[n].site_type = "ecommerce"


\* the keys of the common part of .env
CommonKeys ==
    {"DOMAIN", "TENANT_NAME", "DB_HOST", "DB_PORT", "DB_NAME", "DB_USER", "DB_PASSWORD",
     "THEME"}

\* the keys each site type's own part of .env assigns
BlockKeys(site_type) ==
    CASE site_type = "ecommerce" ->
            {"DATABASE_URL", "REDIS_URL", "SECURE_COOKIES", "STORE_CORS", "ADMIN_CORS",
             "AUTH_CORS", "JWT_SECRET", "COOKIE_SECRET", "BACKEND_URL"}
      [] site_type = "cms" ->
            {"KEY", "SECRET", "DB_CLIENT", "DB_HOST", "DB_PORT", "DB_DATABASE", "DB_USER",
             "DB_PASSWORD", "PUBLIC_URL"}
      [] site_type = "blog" ->
            {"database__client", "database__connection__host",
             "database__connection__port", "database__connection__user",
             "database__connection__password", "database__connection__database", "url"}
      [] site_type = "booking" ->
            {"DATABASE_URL", "NEXTAUTH_SECRET", "CALENDSO_ENCRYPTION_KEY",
             "NEXT_PUBLIC_WEBAPP_URL"}
      [] OTHER -> {}

\* C29: for every site type the .env start_tenant writes assigns DOMAIN,
\* TENANT_NAME, DB_HOST, DB_PORT, DB_NAME, DB_USER, DB_PASSWORD and THEME the
\* values of this create call; beyond them it assigns the keys of the requested
\* site type's block and of no other block (the e-commerce DATABASE_URL is a
\* postgres:// one, the booking one a postgresql:// one), and for a site type
\* without a block it assigns the common keys only
C29_EnvFile ==
    [][\A s \in Slots :
          LET r == reqs[s]
              n == r.tenant_name
              c == r.db_creds IN
          At(r, "start_tenant", "call") /\ tenant_dirs' # tenant_dirs =>
             LET env == tenant_dirs'[n].env IN
             /\ DOMAIN env = CommonKeys \cup BlockKeys(r.site_type)
             /\ env.DOMAIN = settings_DOMAIN
             /\ env.TENANT_NAME = n
             /\ env.DB_HOST = settings_DB_HOST /\ env.DB_HOST = c.DB_HOST
             /\ env.DB_PORT = settings_DB_PORT /\ env.DB_PORT = c.DB_PORT
             /\ env.DB_NAME = db_name_of(n) /\ env.DB_NAME = c.DB_NAME
             /\ env.DB_USER = role_name_of(n) /\ env.DB_USER = c.DB_USER
             /\ env.DB_PASSWORD = <<secret_text(c.DB_PASSWORD)>>
             /\ env.THEME = <<r.theme>>
             /\ r.site_type = "ecommerce" => env.DATABASE_URL[1] = "postgres://"
             /\ r.site_type = "booking" => env.DATABASE_URL[1] = "postgresql://"
             /\ r.site_type = "static" => DOMAIN env = CommonKeys]_vars

\* C29 witness: a static site was created after an e-commerce site of the same
\* name, and its .env holds the common keys only
C29_Witness ==
    \E s \in Slots :
        LET r == reqs[s]
            n == r.tenant_name IN
        /\ r.op = "create" /\ r.site_type = "static"
        /\ Has(r.ev, "docker compose up")
        /\ n \in DOMAIN tenants /\ tenants[n].site_type = "ecommerce"
        /\ n \in DOMAIN tenant_dirs
        /\ tenant_dirs[n].blueprint = "static"
        /\ DOMAIN tenant_dirs[n].env = CommonKeys
        /\ tenant_dirs[n].env.THEME = <<"electronics">>


\* the signing and cookie secrets in the .env of a tenant directory
env_secrets(d) ==
    {d.env[k] : k \in {"JWT_SECRET", "COOKIE_SECRET"} \cap DOMAIN d.env}

\* C30: the signing and cookie secrets a create writes into a tenant's .env are
\* new: neither of them is a signing or cookie secret in the .env of any tenant
\* directory as it was before the write, the directory of the same tenant
\* included
C30_FreshSecrets ==
    [][\A s \in Slots :
          LET r == reqs[s]
              n == r.tenant_name IN
          /\ r.op \in {"create", "api_create"}
          /\ tenant_dirs' # tenant_dirs
          /\ n \in DOMAIN tenant_dirs'
          => \A m \in DOMAIN tenant_dirs :
                env_secrets(tenant_dirs'[n]) \cap env_secrets(tenant_dirs[m]) = {}]_vars


\* one create and one delete for the same tenant have both been answered 200
BothAnswered(c, d) ==
    /\ reqs[c].op = "create" /\ reqs[d].op = "delete"
    /\ reqs[c].tenant_name = reqs[d].tenant_name
    /\ reqs[c].sub = "done" /\ reqs[c].resp.status_code = 200
    /\ reqs[d].sub = "done" /\ reqs[d].resp.status_code = 200

\* C31: requests for one tenant are not kept apart: a handler that is running
\* can always be resumed by the event loop whenever no other handler is inside
\* code without an await, whatever requests for the same tenant are in flight.
\* (The interleavings this allows, in which a create and a delete both answer
\* 200 and the registry and the infrastructure disagree, are the witnesses.)
C31_NotMutuallyExcluded ==
    \A s \in Slots :
        /\ Running(reqs[s])
        /\ \A t \in Slots \ {s} : ~InSync(reqs[t])
        => ENABLED Resume(s)

\* C31 witness: a create and a delete of the same tenant have both answered
\* 200 and the registry row is there without the database or without the
\* working directory
C31_Witness ==
    \E c, d \in Slots :
        LET n == reqs[c].tenant_name IN
        /\ BothAnswered(c, d)
        /\ n \in DOMAIN tenants
        /\ \/ db_name_of(n) \notin DOMAIN pg_database
           \/ n \notin DOMAIN tenant_dirs

\* C31, the other disagreement: both have answered 200 and the database and the
\* working directory are there without a registry row
C31_RowMissing ==
    \E c, d \in Slots :
        LET n == reqs[c].tenant_name IN
        /\ BothAnswered(c, d)
        /\ n \notin DOMAIN tenants
        /\ db_name_of(n) \in DOMAIN pg_database
        /\ n \in DOMAIN tenant_dirs


\* the seeder the seed_admin handler of slot s runs
SeederOf(s) == {k \in DOMAIN seeders : seeders[k].caller = s}

\* C32 as stated: seed_admin passes the email and the password of the body to
\* the seeder whenever the body has them
C32_SuppliedAsStated ==
    \A s \in Slots :
        LET r == reqs[s] IN
        r.op = "seed_admin" /\ Has(r.ev, "seed_admin_user") =>
            /\ r.body_email.given => r.email = r.body_email.v
            /\ r.body_password.given => r.admin_password = r.body_password.v

\* C32: seed_admin passes to the seeder the email of the body when the body has
\* one that is not the empty string, and admin@<tenant>.com otherwise; the
\* password of the body when it has one that is not the empty string, and
\* otherwise a password drawn for this call; it answers success only when the
\* seeder has created the identity, with the email and the password it passed
\* to the seeder, and answers 500 when the seeder raised
C32_SeedAdmin ==
    [][\A s \in Slots :
          LET r == reqs[s]
              u == reqs'[s] IN
          /\ At(r, "seed_admin_user", "call") /\ u # r =>
                /\ u.email = IF r.body_email.given /\ Len(r.body_email.v) > 0
                             THEN r.body_email.v
                             ELSE <<"admin@">> \o r.tenant_name \o <<".com">>
                /\ IF r.body_password.given /\ r.body_password.v.length > 0
                   THEN u.admin_password = r.body_password.v
                   ELSE /\ u.admin_password.kind = "urlsafe"
                        /\ u.admin_password.draw > entropy
                        /\ entropy' >= u.admin_password.draw
                /\ \E k \in DOMAIN seeders' \ DOMAIN seeders :
                      /\ seeders'[k].caller = s
                      /\ seeders'[k].tenant_name = r.tenant_name
                      /\ seeders'[k].email = u.email
                      /\ seeders'[k].password = u.admin_password
          /\ At(r, "seed_admin_user", "wait") /\ u # r =>
                \E k \in SeederOf(s) :
                    LET t == seeders[k] IN
                    /\ t.pc = "done"
                    /\ u.resp.status_code = (IF t.seeded THEN 200 ELSE 500)
                    /\ u.resp.status_code \in {200, 500}
                    /\ u.resp.status_code = 200 =>
                          /\ u.resp.status = "success"
                          /\ u.resp.email = t.email
                          /\ u.resp.password = t.password
                          /\ LET users == pg_database[containers[t.tenant_name].db_name].users
                             IN  t.email \in DOMAIN users /\ users[t.email] = t.password]_vars

\* C32 witness: a request with an email and without a password has been
\* answered success with that email and a generated password, and the identity
\* is in the tenant's database
C32_Witness ==
    \E s \in Slots :
        LET r == reqs[s] IN
        /\ r.op = "seed_admin" /\ r.sub = "done"
        /\ r.resp.status_code = 200
        /\ r.body_email.given /\ r.resp.email = <<"root@x.io">>
        /\ ~r.body_password.given /\ r.resp.password.kind = "urlsafe"
        /\ db_name_of(r.tenant_name) \in DOMAIN pg_database
        /\ <<"root@x.io">> \in DOMAIN pg_database[db_name_of(r.tenant_name)].users
        /\ pg_database[db_name_of(r.tenant_name)].users[<<"root@x.io">>] = r.resp.password

\* C32: a request whose seeder raised has been answered 500
C32_Failed ==
    \E s \in Slots :
        /\ reqs[s].op = "seed_admin" /\ reqs[s].sub = "done"
        /\ reqs[s].resp.status_code = 500
        /\ \E k \in SeederOf(s) : ~seeders[k].seeded /\ seeders[k].pc = "joined"


\* C33: a suspend or a resume of a tenant whose working directory does not
\* exist raises "Tenant directory not found" and is answered with an error; it
\* runs no command and leaves the registry, the databases, the roles, the
\* directories and the containers as they were
C33_ToggleWithoutDirectory ==
    [][\A s \in Slots :
          LET r == reqs'[s]
              n == r.tenant_name IN
          reqs[s].op = "idle" /\ r.op \in {"suspend", "resume"}
             /\ n \notin DOMAIN tenant_dirs =>
                /\ r.sub = "done"
                /\ r.ev = <<Event("raise", <<"Tenant directory not found">>)>>
                /\ Commands(r) = {}
                /\ r.resp.status_code = 500
                /\ r.resp.message = <<"Tenant directory not found">>
                /\ infra' = infra]_vars

\* C33 witness: a suspend of a tenant that has a registry row and no working
\* directory has been answered with the error
C33_Witness ==
    \E s \in Slots :
        LET r == reqs[s]
            n == r.tenant_name IN
        /\ r.op = "suspend" /\ r.sub = "done"
        /\ r.resp.status_code = 500
        /\ r.resp.message = <<"Tenant directory not found">>
        /\ n \notin DOMAIN tenant_dirs
        /\ n \in DOMAIN tenants

\* C33 witness for resume: the tenant was never created
C33_Resume ==
    \E s \in Slots :
        LET r == reqs[s] IN
        /\ r.op = "resume" /\ r.sub = "done"
        /\ r.resp.status_code = 500
        /\ ~r.found


\* a create for tenant n is in flight
CreateInFlight(n) ==
    \E s \in Slots : reqs[s].op = "create" /\ Running(reqs[s]) /\ reqs[s].tenant_name = n

\* C34 as stated: once every create for a tenant has returned, with success or
\* with an error, a tenant that has a working directory with a .env and a
\* database role has in that .env the DB_PASSWORD that is the current password
\* of the role
C34_EnvPasswordIsRolePassword ==
    \A n \in DOMAIN tenant_dirs :
        /\ ~CreateInFlight(n)
        /\ role_name_of(n) \in DOMAIN pg_roles
        => tenant_dirs[n].env.DB_PASSWORD = <<secret_text(pg_roles[role_name_of(n)])>>


\* what delete_tenant_db and deregister_tenant leave in the trace of a request
DbOrRegistryStatements ==
    {"SELECT pg_database", "pg_terminate_backend", "DROP DATABASE", "DROP ROLE",
     "DELETE FROM tenants"}

TenantRows(rows) == { [name |-> n, row |-> rows[n]] : n \in DOMAIN rows }

\* C36: the registry never holds two rows of one name; the INSERT of a create
\* that succeeds leaves for its name the row made of the request's metadata
\* with status running, whether or not the name had a row, and leaves every
\* other row alone; that row is the one in the table when the create answers
\* 200; and the table changes only in register_tenant of a create and in
\* deregister_tenant of a delete
C36_Registry ==
    [][/\ \A n \in DOMAIN tenants' :
              Cardinality({t \in TenantRows(tenants') : t.name = n}) = 1
       /\ \A s \in Slots :
              LET r == reqs[s]
                  n == r.tenant_name IN
              /\ At(r, "register_tenant", "call") /\ ~Raised(reqs'[s]) =>
                    /\ DOMAIN tenants' = DOMAIN tenants \cup {n}
                    /\ tenants'[n].site_type = r.site_type
                    /\ tenants'[n].theme = r.theme
                    /\ tenants'[n].admin_email = admin_email_of(n)
                    /\ tenants'[n].db_name = db_name_of(n)
                    /\ tenants'[n].db_user = role_name_of(n)
                    /\ tenants'[n].status = "running"
                    /\ \A m \in DOMAIN tenants \ {n} : tenants'[m] = tenants[m]
              /\ ~CreateSucceeded(r) /\ CreateSucceeded(reqs'[s]) =>
                    /\ n \in DOMAIN tenants'
                    /\ tenants'[n].site_type = r.site_type
                    /\ tenants'[n].theme = r.theme
                    /\ tenants'[n].status = "running"
       /\ tenants' # tenants =>
              \E s \in Slots :
                  \/ reqs[s].op = "create" /\ At(reqs[s], "register_tenant", "call")
                  \/ reqs[s].op = "delete" /\ At(reqs[s], "deregister_tenant", "call")]_vars

\* a create of a name as a blog has run its INSERT over the row that an earlier
\* successful create of the name as an e-commerce site left, and the row now
\* says blog
C36_Witness ==
    \E s \in Slots :
        LET r == reqs[s]
            n == r.tenant_name IN
        /\ r.op = "create" /\ At(r, "seed_thread", "call")
        /\ r.site_type = "blog"
        /\ n \in DOMAIN life /\ life[n] = "created"
        /\ \E k \in DOMAIN seeders :
              seeders[k].tenant_name = n /\ seeders[k].site_type = "ecommerce"
        /\ n \in DOMAIN tenants /\ tenants[n].site_type = "blog"


\* C37 as stated: a seeding task that create started logs auto_seed_complete
\* only if the administrator identity was created and the publishable key was
\* written into the tenant's nginx configuration; key polling that ends
\* without a key is logged as a failure
C37_CompleteMeansInjected ==
    \A k \in DOMAIN seeders :
        LET t == seeders[k] IN
        t.caller = 0 /\ t.log = "auto_seed_complete" => t.seeded /\ t.injected


\* seed_admin_user of thread k has ended: the identity was created, or the
\* health loop used up its thirty passes, or the user command was run and failed
SeedAdminUserEnded(k) ==
    /\ k \in DOMAIN seeders
    /\ LET t == seeders[k] IN
       \/ t.seeded
       \/ /\ t.log = "auto_seed_failed"
          /\ t.attempt = HEALTH_ATTEMPTS \/ t.reset_db # <<>>

\* C38: the thread of an e-commerce create is handed the email and the password
\* that the response of that create carries; the step in which its user command
\* succeeds puts an identity with exactly that email and password into the
\* tenant's database; and under a fair scheduler every such thread gets there
\* unless the backend was not healthy within the thirty probes or the user
\* command failed (as it does once the tenant has been deleted)
C38_SeederCreatesReturnedIdentity ==
    /\ [][\A s \in Slots :
             LET r == reqs[s] IN
             r.op = "create" /\ At(r, "return", "call") /\ reqs'[s].sub = "done" =>
                 /\ seeders # <<>>
                 /\ seeders[Len(seeders)].tenant_name = r.tenant_name
                 /\ seeders[Len(seeders)].email = reqs'[s].resp.email
                 /\ seeders[Len(seeders)].password = reqs'[s].resp.password]_vars
    /\ [][\A k \in DOMAIN seeders :
             LET t == seeders[k]
                 db == db_name_of(t.tenant_name) IN
             ~t.seeded /\ seeders'[k].seeded =>
                 /\ t.site_type = "ecommerce"
                 /\ db \in DOMAIN pg_database'
                 /\ t.email \in DOMAIN pg_database'[db].users
                 /\ pg_database'[db].users[t.email] = t.password
                 /\ seeders'[k].email = t.email /\ seeders'[k].password = t.password]_vars
    /\ \A k \in SeederIds :
          (k \in DOMAIN seeders /\ seeders[k].site_type = "ecommerce")
              ~> SeedAdminUserEnded(k)

\* the thread of a create that answered 200 found the backend healthy and
\* created the identity with the email and the password of the response
C38_Witness ==
    \E s \in Slots, k \in DOMAIN seeders :
        LET r == reqs[s]
            t == seeders[k]
            db == db_name_of(t.tenant_name) IN
        /\ CreateSucceeded(r) /\ r.site_type = "ecommerce"
        /\ t.tenant_name = r.tenant_name /\ t.seeded /\ t.probes > 1
        /\ r.resp.email = t.email /\ r.resp.password = t.password
        /\ db \in DOMAIN pg_database
        /\ t.email \in DOMAIN pg_database[db].users
        /\ pg_database[db].users[t.email] = t.password

====
